---- MODULE Spec2Model ----
(***************************************************************************)
(* State-machine model of the notebook OAuth example:                      *)
(*   - NotebookOAuthProvider (notebook_provider.py): the credential store  *)
(*     and the authorization-code -> access-token state machine;           *)
(*   - check_tool_authorization / build_www_authenticate_header            *)
(*     (tool_scopes.py): the scope guard and its challenge header;         *)
(*   - CallbackHandler / CallbackServer / main (simple-notebook-client     *)
(*     main.py): the listener thread, the outcome slot callback_data, the  *)
(*     polling wait_for_callback and the client flow around them.          *)
(* Optional values (Python None) are sequences of length at most one:      *)
(* None is <<>> and a present value v is <<v>>.                            *)
(***************************************************************************)
EXTENDS Integers, Sequences, FiniteSets, TLC

VARIABLES
    clients,        \* self.clients: client_id -> client info
    auth_codes,     \* self.auth_codes: code -> AuthorizationCode
    tokens,         \* self.tokens: token -> AccessToken
    state_mapping,  \* self.state_mapping: state -> pending authorization
    user_data,      \* self.user_data: username or token -> user record
    now,            \* time.time(), in ticks of 1/TicksPerSecond second
    result,         \* the last call: operation, arguments, return value or error
    minted_codes,   \* history: every AuthorizationCode ever stored, with its flow
    minted_tokens,  \* history: every AccessToken ever stored, with its code
    flows,          \* history: the authorize calls so far, in order
    gone,           \* history: token -> how it left the store ("revoked", "evicted")
    required_scopes,    \* guard: the tool's required scopes (Optional list)
    access_token,       \* guard: get_access_token() of the request context
    presented,          \* guard: how the request's bearer resolved
    pc,                 \* guard: position of the tool call
    authorization_result, \* guard: what check_tool_authorization returned
    response,           \* guard: status, challenge header, whether the tool ran
    challenge,          \* guard: one build_www_authenticate_header call (Optional)
    requests,           \* token endpoint: the requests in flight, each with its position
    callback_data,  \* client: CallbackServer.callback_data, the outcome slot
    server,         \* client: the listener: "none", "serving", "closed"
    handling,       \* client: the request do_GET is working on (Optional)
    hpc,            \* client: position of do_GET
    http_status,    \* client: status of the listener's last response (0: none yet)
    main_pc,        \* client: position of main()
    exit_path,      \* client: how main() left its try body
    wpc,            \* client: position of wait_for_callback / get_state
    timeout,        \* client: wait_for_callback's timeout argument, seconds
    start_time,     \* client: wait_for_callback's start_time, in polls
    bnow,           \* client: time.time() of the client, in polls of 0.1 s
    outcome,        \* client: what the last callback_handler() gave (Optional)
    waits,          \* history: wait_for_callback calls begun
    redirects,      \* history: the number of requests that reached the listener
    early,          \* history: the first request, when it carried a code and came
                    \* in between the opening of the browser and the call of
                    \* wait_for_callback; whether its code was stored in that time
    written         \* history: per slot field, the request that wrote it, and when

provider_vars == <<clients, auth_codes, tokens, state_mapping, user_data, now,
                   result, minted_codes, minted_tokens, flows, gone>>
guard_vars == <<required_scopes, access_token, presented, pc,
                authorization_result, response, challenge, requests>>
bridge_vars == <<callback_data, server, handling, hpc, http_status, main_pc,
                 exit_path, wpc, timeout, start_time, bnow, outcome, waits,
                 redirects, early, written>>
\* the operation and the success of the last call stand first: two states
\* that differ in them are told apart before the values the calls returned,
\* which are of different kinds, are compared
vars == <<result.op, result.ok, provider_vars, guard_vars, bridge_vars>>

----------------------------------------------------------------------------
(* Bounds of the model *)

MaxFlows == 1           \* authorize calls in one behaviour
MaxLifetimes == 1       \* clock jumps of one token lifetime
MaxSubTicks == 1        \* single clock ticks on top of the jumps
TicksPerSecond == 2     \* clock resolution: ticks per second
MaxScopes == 2          \* length of the scope lists the guard is given
MaxRedirects == 2       \* requests that reach the listener in one behaviour
MaxWaits == 1           \* authorization rounds (wait_for_callback calls) of one main()
MaxRequests == 2        \* requests in flight at the same time

(* Program constants *)

CODE_TTL == 300         \* seconds an authorization code lives
TOKEN_TTL == 3600       \* seconds an access token lives
PollsPerSecond == 10    \* time.sleep(0.1): polls of the slot per second

----------------------------------------------------------------------------
(* Python values *)

None == <<>>
Some(v) == <<v>>
IsNone(o) == o = <<>>
Get(o) == o[1]

Dom(f) == DOMAIN f
Put(f, k, v) == [x \in (DOMAIN f) \cup {k} |-> IF x = k THEN v ELSE f[x]]
Del(f, k) == [x \in (DOMAIN f) \ {k} |-> f[x]]
Lookup(f, k) == IF k \in DOMAIN f THEN Some(f[k]) ELSE None
\* "not o" of an Optional[str]: None and the empty string are falsy
Falsy(o) == IsNone(o) \/ Get(o) = ""
EmptyMap == [x \in {} |-> None]

\* str(bool)
PyStrBool(b) == IF b THEN "True" ELSE "False"

\* " ".join(xs) and ", ".join(xs)
RECURSIVE Join(_, _)
Join(sep, xs) ==
    IF Len(xs) = 0 THEN ""
    ELSE IF Len(xs) = 1 THEN xs[1]
    ELSE xs[1] \o sep \o Join(sep, Tail(xs))

Range(s) == {s[i] : i \in 1..Len(s)}
Last(s) == s[Len(s)]
Front(s) == SubSeq(s, 1, Len(s) - 1)

----------------------------------------------------------------------------
(* Inputs *)

\* OAuthClientInformationFull objects a caller can hold; client_id is Optional
ClientObjs == { [client_id |-> Some("c1")], [client_id |-> Some("c2")],
                [client_id |-> None] }
\* the registration requests
RegisterInputs == { [client_id |-> Some("c1")], [client_id |-> None] }
\* client informations that differ in more than their identifier: three per
\* identifier, and the identifier present, empty or None
ClientInfos ==
    { [client_id |-> i, client_name |-> n] :
          i \in {Some("c1"), Some("c2"), Some(""), None},
          n \in {"n1", "n2", "n3"} }

ScopeLists == { <<>>, <<"read">>, <<"write">>, <<"read", "write">>,
                <<"write", "read">> }

AuthorizationParams(st, sc, uri, explicit, res) ==
    [ state |-> st, scopes |-> sc, code_challenge |-> "ch",
      redirect_uri |-> uri, redirect_uri_provided_explicitly |-> explicit,
      resource |-> res ]

c1 == [client_id |-> Some("c1")]
c2 == [client_id |-> Some("c2")]
no_id == [client_id |-> None]

\* the authorization requests: <<client, params>>. Every field takes several
\* values, the state is given by the caller, given empty or left to the
\* provider, and two requests of different clients give the same state
AuthorizeInputs ==
    { <<c1, AuthorizationParams(None, None, "http://a/cb", TRUE, None)>>,
      <<c2, AuthorizationParams(None, Some(<<>>), "http://b/cb", FALSE,
                                Some("http://rs/mcp"))>>,
      <<c1, AuthorizationParams(Some("s1"), Some(<<"read">>), "http://a/cb", TRUE,
                                None)>>,
      <<c2, AuthorizationParams(Some("s1"), Some(<<"write">>), "http://b/cb", FALSE,
                                Some("http://rs/mcp"))>>,
      <<c1, AuthorizationParams(None, Some(<<"read", "write">>), "http://a/cb", TRUE,
                                Some("http://rs/mcp"))>>,
      <<c2, AuthorizationParams(Some(""), Some(<<"write", "read">>), "http://b/cb",
                                TRUE, None)>> }

\* the request of one client that comes back for a new grant
RegrantInputs ==
    { <<c1, AuthorizationParams(None, Some(<<"read", "write">>), "http://a/cb", TRUE,
                                None)>> }

\* the requests and forms of the specification with a clock
ClockAuthorizeInputs ==
    { <<c1, AuthorizationParams(None, Some(<<"read", "write">>), "http://a/cb", TRUE,
                                Some("http://rs/mcp"))>>,
      <<c2, AuthorizationParams(Some("s1"), Some(<<"read">>), "http://b/cb", FALSE,
                                None)>> }
ClockLogins == { <<"demo_user", "demo_password">>, <<"demo_user", "guess">> }

\* the login forms posted: the right pair, a wrong password, a wrong username
Logins == { <<"demo_user", "demo_password">>, <<"demo_user", "guess">>,
            <<"mallory", "demo_password">> }

\* a form value: None when the field is missing, else a str or an UploadFile
Str(v) == Some([kind |-> "str", value |-> v])
File == Some([kind |-> "file", value |-> "upload.bin"])
\* the login forms submitted to handle_login_callback: each field is missing,
\* empty, a text or an uploaded file
LoginForms ==
    [ username : {None, Str(""), Str("demo_user"), File},
      password : {None, Str(""), Str("demo_password"), Str("guess"), File},
      state : {None, Str(""), Str("s1"), Str("g1"), File} ]

\* NotebookAuthSettings
demo_username == "demo_user"
demo_password == "demo_password"

\* auth_callback_url given to the provider's constructor
auth_callback_url == "http://as/login"

\* states a login form can post: the caller-supplied one, the generated ones,
\* and one that was never issued
GenState(n) == "g" \o ToString(n)
FormStates == {"s1", "never"} \cup {GenState(n) : n \in 1..MaxFlows}
\* the same where a client comes back for a new grant
RegrantStates == {GenState(n) : n \in 1..(MaxFlows + 1)}

\* secrets.token_hex: each call gives a value never seen before
NewCode == "mcp_c" \o ToString(Cardinality(DOMAIN minted_codes) + 1)
\* mutant: every token gets the same string
NewToken_same == "mcp_t1"
NewToken == "mcp_t" \o ToString(Cardinality(DOMAIN minted_tokens) + 1)
NewState == GenState(Len(flows) + 1)

\* an AuthorizationCode object that is in no store (a forged or foreign code)
UnknownCode ==
    [ code |-> "mcp_unknown", client_id |-> "c1", redirect_uri |-> "http://a/cb",
      redirect_uri_provided_explicitly |-> TRUE, expires_at |-> 0,
      scopes |-> <<"read", "write">>, code_challenge |-> "ch",
      resource |-> None, resource_owner |-> "demo_user" ]

\* the AuthorizationCode objects a caller can hold: those it loaded at some
\* time (pydantic models, never mutated after creation), and a forged one
CodeObjs == {minted_codes[c].rec : c \in DOMAIN minted_codes} \cup {UnknownCode}

\* the bearer strings a caller can present
TokenStrings == (DOMAIN minted_tokens) \cup {"mcp_unknown"}

\* the refresh-token calls: <<client, refresh token string, scopes>>
RefreshInputs == { <<c1, "rt", <<"read">>>>, <<c2, "mcp_t1", <<>>>> }

\* clock: time.time() in seconds is now / TicksPerSecond
TokenTicks == TOKEN_TTL * TicksPerSecond
CodeTicks == CODE_TTL * TicksPerSecond
\* int(t) of a time t given in ticks: whole seconds
PyInt(time) == time \div TicksPerSecond

Ok(op, args, value) == [op |-> op, args |-> args, ok |-> TRUE, value |-> value, error |-> ""]
Err(op, args, error) == [op |-> op, args |-> args, ok |-> FALSE, value |-> None, error |-> error]

PyStrOpt(o) == IF IsNone(o) THEN "None" ELSE Get(o)


----------------------------------------------------------------------------
(* NotebookOAuthProvider *)

\* __init__: every map starts empty
ProviderInit ==
    /\ clients = EmptyMap
    /\ auth_codes = EmptyMap
    /\ tokens = EmptyMap
    /\ state_mapping = EmptyMap
    /\ user_data = EmptyMap
    /\ now = 0
    /\ result = Ok("init", <<>>, None)
    /\ minted_codes = EmptyMap
    /\ minted_tokens = EmptyMap
    /\ flows = <<>>
    /\ gone = EmptyMap

get_client(client_id) ==
    /\ result' = Ok("get_client", <<client_id>>, Lookup(clients, client_id))
    /\ UNCHANGED <<clients, auth_codes, tokens, state_mapping, user_data, now,
                   minted_codes, minted_tokens, flows, gone>>

\* mutant: an identifier already registered keeps its first entry
register_client_first_wins(client_info) ==
    /\ IF Falsy(client_info.client_id)
       THEN /\ result' = Err("register_client", <<client_info>>,
                             "ValueError: No client_id provided")
            /\ UNCHANGED clients
       ELSE /\ clients' = IF Get(client_info.client_id) \in DOMAIN clients
                          THEN clients
                          ELSE Put(clients, Get(client_info.client_id), client_info)
            /\ result' = Ok("register_client", <<client_info>>, None)
    /\ UNCHANGED <<auth_codes, tokens, state_mapping, user_data, now,
                   minted_codes, minted_tokens, flows, gone>>

register_client(client_info) ==
    /\ IF Falsy(client_info.client_id)
       THEN /\ result' = Err("register_client", <<client_info>>,
                             "ValueError: No client_id provided")
            /\ UNCHANGED clients
       ELSE /\ clients' = Put(clients, Get(client_info.client_id), client_info)
            /\ result' = Ok("register_client", <<client_info>>, None)
    /\ UNCHANGED <<auth_codes, tokens, state_mapping, user_data, now,
                   minted_codes, minted_tokens, flows, gone>>

\* the entry authorize stores under the state
PendingOf(client, params) ==
    [ redirect_uri |-> params.redirect_uri,
      code_challenge |-> params.code_challenge,
      redirect_uri_provided_explicitly |->
          PyStrBool(params.redirect_uri_provided_explicitly),
      client_id |-> client.client_id,
      resource |-> params.resource,
      scopes |-> params.scopes ]

\* mutant: the provider generates a state even when the caller gave one
authorize_always_fresh(client, params) ==
    /\ Len(flows) < MaxFlows
    /\ LET state == NewState
       IN /\ state_mapping' = Put(state_mapping, state, PendingOf(client, params))
          /\ flows' = Append(flows, [state |-> state, client |-> client,
                                     params |-> params])
          /\ result' = Ok("authorize", <<client, params>>,
                          auth_callback_url \o "?state=" \o state
                            \o "&client_id=" \o PyStrOpt(client.client_id))
    /\ UNCHANGED <<clients, auth_codes, tokens, user_data, now,
                   minted_codes, minted_tokens, gone>>

\* the body of authorize
Authorize(client, params) ==
    /\ LET state == IF Falsy(params.state) THEN NewState ELSE Get(params.state)
       IN /\ state_mapping' = Put(state_mapping, state, PendingOf(client, params))
          /\ flows' = Append(flows, [state |-> state, client |-> client,
                                     params |-> params])
          /\ result' = Ok("authorize", <<client, params>>,
                          auth_callback_url \o "?state=" \o state
                            \o "&client_id=" \o PyStrOpt(client.client_id))
    /\ UNCHANGED <<clients, auth_codes, tokens, user_data, now,
                   minted_codes, minted_tokens, gone>>

\* authorize, followed for MaxFlows calls
authorize(client, params) ==
    /\ Len(flows) < MaxFlows
    /\ Authorize(client, params)

\* authorize with a state that is pending, followed for one call more
authorize_pending_state(client, params) ==
    /\ Len(flows) < MaxFlows + 1
    /\ ~Falsy(params.state)
    /\ Get(params.state) \in DOMAIN state_mapping
    /\ Authorize(client, params)

\* authorize, followed for one more call once a token lifetime has ended: a
\* client comes back for a new grant
authorize_again(client, params) ==
    /\ Len(flows) < MaxFlows + (IF now >= TokenTicks THEN 1 ELSE 0)
    /\ Authorize(client, params)

\* the flow (index into flows) whose pending authorization is stored under state
FlowOf(state) ==
    CHOOSE i \in 1..Len(flows) :
        /\ flows[i].state = state
        /\ \A j \in (i + 1)..Len(flows) : flows[j].state /= state

\* mutant: the code drops the resource of the pending authorization
CodeOf_no_resource(new_code, state_data, username, time) ==
    [ code |-> new_code,
      client_id |-> Get(state_data.client_id),
      redirect_uri |-> state_data.redirect_uri,
      redirect_uri_provided_explicitly |->
          (state_data.redirect_uri_provided_explicitly = "True"),
      expires_at |-> time + CodeTicks,
      scopes |-> IF IsNone(state_data.scopes) \/ Get(state_data.scopes) = <<>>
                 THEN <<>> ELSE Get(state_data.scopes),
      code_challenge |-> state_data.code_challenge,
      resource |-> None,
      resource_owner |-> username ]

\* mutant: the code keeps only the first requested scope
CodeOf_first_scope(new_code, state_data, username, time) ==
    [ code |-> new_code,
      client_id |-> Get(state_data.client_id),
      redirect_uri |-> state_data.redirect_uri,
      redirect_uri_provided_explicitly |->
          (state_data.redirect_uri_provided_explicitly = "True"),
      expires_at |-> time + CodeTicks,
      scopes |-> IF IsNone(state_data.scopes) \/ Get(state_data.scopes) = <<>>
                 THEN <<>> ELSE <<Get(state_data.scopes)[1]>>,
      code_challenge |-> state_data.code_challenge,
      resource |-> state_data.resource,
      resource_owner |-> username ]

\* the AuthorizationCode handle_simple_callback builds
CodeOf(new_code, state_data, username, time) ==
    [ code |-> new_code,
      client_id |-> Get(state_data.client_id),
      redirect_uri |-> state_data.redirect_uri,
      redirect_uri_provided_explicitly |->
          (state_data.redirect_uri_provided_explicitly = "True"),
      expires_at |-> time + CodeTicks,
      scopes |-> IF IsNone(state_data.scopes) \/ Get(state_data.scopes) = <<>>
                 THEN <<>> ELSE Get(state_data.scopes),
      code_challenge |-> state_data.code_challenge,
      resource |-> state_data.resource,
      resource_owner |-> username ]

\* mutant: one matching field is enough
CredentialsValid_either(username, password) ==
    username = demo_username \/ password = demo_password

\* username != demo_username or password != demo_password, negated
CredentialsValid(username, password) ==
    username = demo_username /\ password = demo_password

\* mutant: the pending authorization is left in the map
StateMappingAfterLogin_keep(state) == state_mapping

\* del self.state_mapping[state]
StateMappingAfterLogin(state) == Del(state_mapping, state)

\* the body of handle_simple_callback, run for the call named by op and args:
\* handle_simple_callback itself, or handle_login_callback, which wraps the
\* redirect URI in a 302 response and lets an HTTPException pass
SimpleCallback(op, args, username, password, state) ==
    LET fail(error) ==
            /\ result' = Err(op, args, error)
            /\ UNCHANGED <<auth_codes, state_mapping, user_data, minted_codes>>
        redirect(new_code) ==
            [redirect_uri |-> state_mapping[state].redirect_uri,
             code |-> new_code, state |-> state]
    IN
    /\ IF state \notin DOMAIN state_mapping
       THEN fail("HTTPException 400: Invalid state parameter")
       ELSE IF IsNone(state_mapping[state].client_id)
       THEN fail("AssertionError")
       ELSE IF ~CredentialsValid(username, password)
       THEN fail("HTTPException 401: Invalid credentials")
       ELSE LET new_code == NewCode
                auth_code == CodeOf(new_code, state_mapping[state], username, now)
            IN /\ auth_codes' = Put(auth_codes, new_code, auth_code)
               /\ user_data' = Put(user_data, username, [username |-> username])
               /\ state_mapping' = StateMappingAfterLogin(state)
               /\ minted_codes' = Put(minted_codes, new_code,
                      [rec |-> auth_code, state |-> state, flow |-> FlowOf(state)])
               /\ result' = Ok(op, args,
                      IF op = "handle_login_callback"
                      THEN [status_code |-> 302, url |-> redirect(new_code)]
                      ELSE redirect(new_code))
    /\ UNCHANGED <<clients, tokens, now, minted_tokens, flows, gone>>

handle_simple_callback(username, password, state) ==
    SimpleCallback("handle_simple_callback", <<username, password, state>>,
                   username, password, state)

\* "not v" of a form value: a missing field and the empty string are falsy
FormFalsy(v) == IsNone(v) \/ (Get(v).kind = "str" /\ Get(v).value = "")
IsStr(v) == ~IsNone(v) /\ Get(v).kind = "str"
\* the value as handle_simple_callback gets it
Passed(v) == IF IsNone(v) THEN "None" ELSE Get(v).value

\* mutant: the state field is not validated
FormError_state_unchecked(form) ==
    IF FormFalsy(form.username) \/ FormFalsy(form.password)
    THEN Some("HTTPException 400: Missing username, password, or state parameter")
    ELSE IF ~IsStr(form.username) \/ ~IsStr(form.password)
    THEN Some("HTTPException 400: Invalid parameter types")
    ELSE None

\* the two checks of handle_login_callback: the error raised, or None
FormError(form) ==
    IF FormFalsy(form.username) \/ FormFalsy(form.password) \/ FormFalsy(form.state)
    THEN Some("HTTPException 400: Missing username, password, or state parameter")
    ELSE IF ~IsStr(form.username) \/ ~IsStr(form.password) \/ ~IsStr(form.state)
    THEN Some("HTTPException 400: Invalid parameter types")
    ELSE None

handle_login_callback(form) ==
    IF ~IsNone(FormError(form))
    THEN /\ result' = Err("handle_login_callback", <<form>>, Get(FormError(form)))
         /\ UNCHANGED <<clients, auth_codes, tokens, state_mapping, user_data, now,
                        minted_codes, minted_tokens, flows, gone>>
    ELSE SimpleCallback("handle_login_callback", <<form>>, Passed(form.username),
                        Passed(form.password), Passed(form.state))

load_authorization_code(client, authorization_code) ==
    /\ result' = Ok("load_authorization_code", <<client, authorization_code>>,
                    Lookup(auth_codes, authorization_code))
    /\ UNCHANGED <<clients, auth_codes, tokens, state_mapping, user_data, now,
                   minted_codes, minted_tokens, flows, gone>>

\* mutant: the token gets every scope the server knows
TokenOf_all_scopes(mcp_token, client, authorization_code, time) ==
    [ token |-> mcp_token,
      client_id |-> Get(client.client_id),
      scopes |-> <<"read", "write">>,
      expires_at |-> PyInt(time) + TOKEN_TTL,
      resource |-> authorization_code.resource,
      resource_owner |-> authorization_code.resource_owner ]

\* mutant: the client is taken for the resource owner
TokenOf_client_as_owner(mcp_token, client, authorization_code, time) ==
    [ token |-> mcp_token,
      client_id |-> Get(client.client_id),
      scopes |-> authorization_code.scopes,
      expires_at |-> PyInt(time) + TOKEN_TTL,
      resource |-> authorization_code.resource,
      resource_owner |-> Get(client.client_id) ]

\* the AccessToken exchange_authorization_code stores
TokenOf(mcp_token, client, authorization_code, time) ==
    [ token |-> mcp_token,
      client_id |-> Get(client.client_id),
      scopes |-> authorization_code.scopes,
      expires_at |-> PyInt(time) + TOKEN_TTL,
      resource |-> authorization_code.resource,
      resource_owner |-> authorization_code.resource_owner ]

\* mutant: the code is left in the store
AuthCodesAfterExchange_keep(code) == auth_codes

\* del self.auth_codes[authorization_code.code]
AuthCodesAfterExchange(code) == Del(auth_codes, code)

\* mutant: the code is deleted before the client's identifier is looked at
exchange_authorization_code_consumes_first(client, authorization_code) ==
    LET args == <<client, authorization_code>>
    IN
    /\ IF authorization_code.code \notin DOMAIN auth_codes
       THEN /\ result' = Err("exchange_authorization_code", args,
                             "ValueError: Invalid authorization code")
            /\ UNCHANGED <<auth_codes, tokens, user_data, minted_tokens>>
       ELSE IF Falsy(client.client_id)
       THEN /\ result' = Err("exchange_authorization_code", args,
                             "ValueError: No client_id provided")
            /\ auth_codes' = Del(auth_codes, authorization_code.code)
            /\ UNCHANGED <<tokens, user_data, minted_tokens>>
       ELSE LET mcp_token == NewToken
                token == TokenOf(mcp_token, client, authorization_code, now)
            IN /\ tokens' = Put(tokens, mcp_token, token)
               /\ user_data' = Put(user_data, mcp_token, [username |-> demo_username])
               /\ auth_codes' = Del(auth_codes, authorization_code.code)
               /\ minted_tokens' = Put(minted_tokens, mcp_token,
                      [rec |-> token, code |-> authorization_code.code])
               /\ result' = Ok("exchange_authorization_code", args,
                      [access_token |-> mcp_token, token_type |-> "Bearer",
                       expires_in |-> TOKEN_TTL,
                       scope |-> Join(" ", authorization_code.scopes)])
    /\ UNCHANGED <<clients, state_mapping, now, minted_codes, flows, gone>>

exchange_authorization_code(client, authorization_code) ==
    LET args == <<client, authorization_code>>
        fail(error) ==
            /\ result' = Err("exchange_authorization_code", args, error)
            /\ UNCHANGED <<auth_codes, tokens, user_data, minted_tokens>>
    IN
    /\ IF authorization_code.code \notin DOMAIN auth_codes
       THEN fail("ValueError: Invalid authorization code")
       ELSE IF Falsy(client.client_id)
       THEN fail("ValueError: No client_id provided")
       ELSE LET mcp_token == NewToken
                token == TokenOf(mcp_token, client, authorization_code, now)
            IN /\ tokens' = Put(tokens, mcp_token, token)
               /\ user_data' = Put(user_data, mcp_token, [username |-> demo_username])
               /\ auth_codes' = AuthCodesAfterExchange(authorization_code.code)
               /\ minted_tokens' = Put(minted_tokens, mcp_token,
                      [rec |-> token, code |-> authorization_code.code])
               /\ result' = Ok("exchange_authorization_code", args,
                      [access_token |-> mcp_token, token_type |-> "Bearer",
                       expires_in |-> TOKEN_TTL,
                       scope |-> Join(" ", authorization_code.scopes)])
    /\ UNCHANGED <<clients, state_mapping, now, minted_codes, flows, gone>>

\* mutant: a token is expired from the instant of its expiry on
Expired_inclusive(token_rec, time) ==
    /\ token_rec.expires_at /= 0
    /\ token_rec.expires_at * TicksPerSecond <= time

\* access_token.expires_at and access_token.expires_at < time.time()
Expired(token_rec, time) ==
    /\ token_rec.expires_at /= 0
    /\ token_rec.expires_at * TicksPerSecond < time

load_access_token(token) ==
    /\ IF token \notin DOMAIN tokens
       THEN /\ result' = Ok("load_access_token", <<token>>, None)
            /\ UNCHANGED <<tokens, gone>>
       ELSE IF Expired(tokens[token], now)
       THEN /\ tokens' = Del(tokens, token)
            /\ gone' = Put(gone, token, "evicted")
            /\ result' = Ok("load_access_token", <<token>>, None)
       ELSE /\ result' = Ok("load_access_token", <<token>>, Some(tokens[token]))
            /\ UNCHANGED <<tokens, gone>>
    /\ UNCHANGED <<clients, auth_codes, state_mapping, user_data, now,
                   minted_codes, minted_tokens, flows>>

\* mutant: an access-token string is accepted as a refresh token
load_refresh_token_from_tokens(client, refresh_token) ==
    /\ result' = Ok("load_refresh_token", <<client, refresh_token>>,
                    Lookup(tokens, refresh_token))
    /\ UNCHANGED <<clients, auth_codes, tokens, state_mapping, user_data, now,
                   minted_codes, minted_tokens, flows, gone>>

load_refresh_token(client, refresh_token) ==
    /\ result' = Ok("load_refresh_token", <<client, refresh_token>>, None)
    /\ UNCHANGED <<clients, auth_codes, tokens, state_mapping, user_data, now,
                   minted_codes, minted_tokens, flows, gone>>

exchange_refresh_token(client, refresh_token, scopes) ==
    /\ result' = Err("exchange_refresh_token", <<client, refresh_token, scopes>>,
                     "NotImplementedError: Refresh tokens not supported")
    /\ UNCHANGED <<clients, auth_codes, tokens, state_mapping, user_data, now,
                   minted_codes, minted_tokens, flows, gone>>

\* mutant: the token is deleted without looking whether it is there
revoke_token_unguarded(token) ==
    /\ IF token \in DOMAIN tokens
       THEN /\ tokens' = Del(tokens, token)
            /\ gone' = Put(gone, token, "revoked")
            /\ result' = Ok("revoke_token", <<token>>, None)
       ELSE /\ UNCHANGED <<tokens, gone>>
            /\ result' = Err("revoke_token", <<token>>, "KeyError")
    /\ UNCHANGED <<clients, auth_codes, state_mapping, user_data, now,
                   minted_codes, minted_tokens, flows>>

revoke_token(token) ==
    /\ IF token \in DOMAIN tokens
       THEN /\ tokens' = Del(tokens, token)
            /\ gone' = Put(gone, token, "revoked")
       ELSE UNCHANGED <<tokens, gone>>
    /\ result' = Ok("revoke_token", <<token>>, None)
    /\ UNCHANGED <<clients, auth_codes, state_mapping, user_data, now,
                   minted_codes, minted_tokens, flows>>

\* time passes between calls: one tick, or one token lifetime
Advance(d) ==
    /\ IF d = 1
       THEN now % TokenTicks < MaxSubTicks
       ELSE now \div TokenTicks < MaxLifetimes
    /\ now' = now + d
    /\ UNCHANGED <<clients, auth_codes, tokens, state_mapping, user_data,
                   result, minted_codes, minted_tokens, flows, gone>>

----------------------------------------------------------------------------
(* Scope guard: tool_scopes.py *)

OK == "ok"
MISSING_AUTH == "missing_auth"
INSUFFICIENT_SCOPE == "insufficient_scope"

\* mutant: the loop keeps going and reports the last missing scope
RECURSIVE FirstMissing_last(_, _)
FirstMissing_last(required, token_scopes) ==
    IF required = <<>> THEN None
    ELSE IF Last(required) \notin token_scopes THEN Some(Last(required))
    ELSE FirstMissing_last(Front(required), token_scopes)

\* the loop of check_tool_authorization: the first required scope, in list
\* order, that is not in token_scopes
RECURSIVE FirstMissing(_, _)
FirstMissing(required, token_scopes) ==
    IF required = <<>> THEN None
    ELSE IF Head(required) \notin token_scopes THEN Some(Head(required))
    ELSE FirstMissing(Tail(required), token_scopes)

\* mutant: scope names are compared without regard to case
Lower(scope) == IF scope = "Read" THEN "read" ELSE scope
check_tool_authorization_nocase(required, token) ==
    IF IsNone(required) \/ Get(required) = <<>>
    THEN <<OK, None>>
    ELSE IF IsNone(token)
    THEN <<MISSING_AUTH, None>>
    ELSE LET token_scopes == {Lower(x) : x \in Range(Get(token).scopes)}
             missing == {i \in 1..Len(Get(required)) :
                             Lower(Get(required)[i]) \notin token_scopes}
         IN IF missing = {} THEN <<OK, None>>
            ELSE <<INSUFFICIENT_SCOPE,
                   Some(Get(required)[CHOOSE i \in missing : \A j \in missing : i <= j])>>

\* mutant: the token is looked up before the required scopes are
check_tool_authorization_token_first(required, token) ==
    IF IsNone(token)
    THEN <<MISSING_AUTH, None>>
    ELSE IF IsNone(required) \/ Get(required) = <<>>
    THEN <<OK, None>>
    ELSE LET missing == FirstMissing(Get(required), Range(Get(token).scopes))
         IN IF IsNone(missing) THEN <<OK, None>>
            ELSE <<INSUFFICIENT_SCOPE, missing>>

\* check_tool_authorization(required_scopes), with get_access_token() = token
check_tool_authorization(required, token) ==
    IF IsNone(required) \/ Get(required) = <<>>
    THEN <<OK, None>>
    ELSE IF IsNone(token)
    THEN <<MISSING_AUTH, None>>
    ELSE LET token_scopes == Range(Get(token).scopes)
             missing == FirstMissing(Get(required), token_scopes)
         IN IF IsNone(missing) THEN <<OK, None>>
            ELSE <<INSUFFICIENT_SCOPE, missing>>

\* mutant: only the first required scope is rendered
www_auth_parts_first_scope(error, error_description, required, resource_metadata_url) ==
    <<"error=\"" \o error \o "\"",
      "error_description=\"" \o error_description \o "\"">>
    \o (IF IsNone(required) \/ Get(required) = <<>> THEN <<>>
        ELSE <<"scope=\"" \o Head(Get(required)) \o "\"">>)
    \o (IF IsNone(resource_metadata_url) THEN <<>>
        ELSE <<"resource_metadata=\"" \o Get(resource_metadata_url) \o "\"">>)

\* mutant: the scope parameter is written even when no scope is required
www_auth_parts_always_scope(error, error_description, required, resource_metadata_url) ==
    <<"error=\"" \o error \o "\"",
      "error_description=\"" \o error_description \o "\"">>
    \o <<"scope=\"" \o (IF IsNone(required) THEN "" ELSE Join(" ", Get(required)))
          \o "\"">>
    \o (IF IsNone(resource_metadata_url) THEN <<>>
        ELSE <<"resource_metadata=\"" \o Get(resource_metadata_url) \o "\"">>)

\* www_auth_parts of build_www_authenticate_header
www_auth_parts(error, error_description, required, resource_metadata_url) ==
    <<"error=\"" \o error \o "\"",
      "error_description=\"" \o error_description \o "\"">>
    \o (IF IsNone(required) \/ Get(required) = <<>> THEN <<>>
        ELSE <<"scope=\"" \o Join(" ", Get(required)) \o "\"">>)
    \o (IF IsNone(resource_metadata_url) THEN <<>>
        ELSE <<"resource_metadata=\"" \o Get(resource_metadata_url) \o "\"">>)

build_www_authenticate_header(error, error_description, required, resource_metadata_url) ==
    "Bearer " \o Join(", ", www_auth_parts(error, error_description, required,
                                           resource_metadata_url))

\* one tool call: the bearer is resolved through load_access_token, the guard
\* decides, the boundary answers
ScopeNames == {"read", "write", "admin", "Read"}
SeqsUpTo(S, n) == UNION {[1..k -> S] : k \in 0..n}
GuardScopeLists == SeqsUpTo(ScopeNames, MaxScopes)
Bearers == {None, Some("mcp_unknown"), Some("mcp_t1")}
MetadataUrls == {None, Some("http://rs/.well-known/oauth-protected-resource")}

\* the client before main() runs: no writer of any slot field yet
NoTag == [id |-> 0, cycle |-> 0, query |-> <<>>, fresh |-> FALSE]
NoTags == [authorization_code |-> NoTag, state |-> NoTag, error |-> NoTag]

\* CallbackServer.__init__, before main() runs
BridgeInit ==
    /\ callback_data = [authorization_code |-> None, state |-> None, error |-> None]
    /\ server = "none"
    /\ handling = None
    /\ hpc = "idle"
    /\ http_status = 0
    /\ main_pc = "new"
    /\ exit_path = "none"
    /\ wpc = "idle"
    /\ timeout = 0
    /\ start_time = 0
    /\ bnow = 0
    /\ outcome = None
    /\ waits = 0
    /\ redirects = 0
    /\ early = None
    /\ written = NoTags

GuardIdle ==
    /\ required_scopes = None
    /\ access_token = None
    /\ presented = None
    /\ pc = "idle"
    /\ authorization_result = <<OK, None>>
    /\ response = None
    /\ challenge = None
    /\ requests = <<>>

\* the provider after one completed grant for scope list ts at time 0
\* (authorize, handle_simple_callback, exchange_authorization_code)
GrantedInit(ts) ==
    LET params == AuthorizationParams(None, Some(ts), "http://a/cb", TRUE, None)
        pending == PendingOf(c1, params)
        code == CodeOf("mcp_c1", pending, demo_username, 0)
        token == TokenOf("mcp_t1", c1, code, 0)
    IN /\ clients = Put(EmptyMap, "c1", c1)
       /\ auth_codes = EmptyMap
       /\ tokens = Put(EmptyMap, "mcp_t1", token)
       /\ state_mapping = EmptyMap
       /\ user_data = Put(Put(EmptyMap, demo_username, [username |-> demo_username]),
                          "mcp_t1", [username |-> demo_username])
       /\ minted_codes = Put(EmptyMap, "mcp_c1",
                             [rec |-> code, state |-> GenState(1), flow |-> 1])
       /\ minted_tokens = Put(EmptyMap, "mcp_t1", [rec |-> token, code |-> "mcp_c1"])
       /\ flows = <<[state |-> GenState(1), client |-> c1, params |-> params]>>
       /\ gone = EmptyMap
       /\ result = Ok("exchange_authorization_code", <<c1, code>>,
                      [access_token |-> "mcp_t1", token_type |-> "Bearer",
                       expires_in |-> TOKEN_TTL, scope |-> Join(" ", ts)])

InitGuard ==
    /\ BridgeInit
    /\ \E ts \in GuardScopeLists : GrantedInit(ts)
    /\ now \in {0, TokenTicks + 1}
    /\ required_scopes \in {None} \cup {Some(r) : r \in GuardScopeLists}
    /\ presented \in Bearers
    /\ access_token = None
    /\ pc = "request"
    /\ authorization_result = <<OK, None>>
    /\ response = None
    /\ challenge = None
    /\ requests = <<>>

\* the auth middleware resolves the presented bearer with load_access_token
ResolveToken ==
    /\ pc = "request"
    /\ IF IsNone(presented)
       THEN /\ access_token' = None
            /\ UNCHANGED provider_vars
       ELSE /\ load_access_token(Get(presented))
            /\ access_token' = result'.value
    /\ pc' = "resolved"
    /\ UNCHANGED <<required_scopes, presented, authorization_result, response, challenge,
                   requests>>

CheckToolAuthorization ==
    /\ pc = "resolved"
    /\ authorization_result' = check_tool_authorization(required_scopes, access_token)
    /\ pc' = "checked"
    /\ UNCHANGED <<required_scopes, presented, access_token, response, challenge,
                   requests>>
    /\ UNCHANGED provider_vars

\* mutant: a call without the scope is answered 403 and the tool runs anyway
Respond_runs_denied(resource_metadata_url) ==
    /\ pc = "checked"
    /\ response' =
         IF authorization_result[1] = MISSING_AUTH
         THEN Some([status |-> 401, executed |-> FALSE,
                    header |-> Some(build_www_authenticate_header("invalid_token",
                        "Authentication required", required_scopes,
                        resource_metadata_url))])
         ELSE IF authorization_result[1] = INSUFFICIENT_SCOPE
         THEN Some([status |-> 403, executed |-> TRUE,
                    header |-> Some(build_www_authenticate_header("insufficient_scope",
                        "Required scope: " \o Get(authorization_result[2]),
                        required_scopes, resource_metadata_url))])
         ELSE Some([status |-> 200, executed |-> TRUE, header |-> None])
    /\ pc' = "done"
    /\ UNCHANGED <<required_scopes, presented, access_token, authorization_result,
                   challenge, requests>>
    /\ UNCHANGED provider_vars

\* the HTTP boundary: 401 / 403 with the challenge header, or the tool runs
Respond(resource_metadata_url) ==
    /\ pc = "checked"
    /\ response' =
         IF authorization_result[1] = MISSING_AUTH
         THEN Some([status |-> 401, executed |-> FALSE,
                    header |-> Some(build_www_authenticate_header("invalid_token",
                        "Authentication required", required_scopes,
                        resource_metadata_url))])
         ELSE IF authorization_result[1] = INSUFFICIENT_SCOPE
         THEN Some([status |-> 403, executed |-> FALSE,
                    header |-> Some(build_www_authenticate_header("insufficient_scope",
                        "Required scope: " \o Get(authorization_result[2]),
                        required_scopes, resource_metadata_url))])
         ELSE Some([status |-> 200, executed |-> TRUE, header |-> None])
    /\ pc' = "done"
    /\ UNCHANGED <<required_scopes, presented, access_token, authorization_result,
                   challenge, requests>>
    /\ UNCHANGED provider_vars

\* the calls of build_www_authenticate_header: <<error, error_description,
\* required_scopes, resource_metadata_url>>
ChallengeErrors == {"invalid_token", "insufficient_scope"}
ChallengeDescriptions == {"Authentication required", "Required scope: write"}
ChallengeCalls ==
    { <<e, d, r, u>> : e \in ChallengeErrors, d \in ChallengeDescriptions,
                       r \in {None} \cup {Some(x) : x \in GuardScopeLists},
                       u \in MetadataUrls }

\* a caller about to build a header
InitChallenge ==
    /\ ProviderInit
    /\ BridgeInit
    /\ required_scopes = None
    /\ access_token = None
    /\ presented = None
    /\ pc = "idle"
    /\ authorization_result = <<OK, None>>
    /\ response = None
    /\ \E call \in ChallengeCalls : challenge = Some([args |-> call, header |-> None])
    /\ requests = <<>>

\* the call returns its header
BuildHeader ==
    /\ ~IsNone(challenge)
    /\ IsNone(Get(challenge).header)
    /\ LET args == Get(challenge).args
       IN challenge' = Some([args |-> args,
                             header |-> Some(build_www_authenticate_header(
                                 args[1], args[2], args[3], args[4]))])
    /\ UNCHANGED <<required_scopes, access_token, presented, pc,
                   authorization_result, response, requests>>
    /\ UNCHANGED <<provider_vars, bridge_vars>>

\* the token endpoint: each request awaits load_authorization_code, answers
\* invalid_grant when that gives None, and otherwise awaits
\* exchange_authorization_code with the object it loaded. A coroutine of the
\* provider has no await of its own and runs in one piece; requests interleave
\* between the two calls
NewRequest == [pc |-> "start", code |-> "", loaded |-> None, outcome |-> None]
Answer(ok, token, error) == Some([ok |-> ok, token |-> token, error |-> error])

InitRequests ==
    /\ ProviderInit
    /\ BridgeInit
    /\ required_scopes = None
    /\ access_token = None
    /\ presented = None
    /\ pc = "idle"
    /\ authorization_result = <<OK, None>>
    /\ response = None
    /\ challenge = None
    /\ requests = [r \in 1..MaxRequests |-> NewRequest]

TokenRequestLoad(r, client, code) ==
    /\ requests[r].pc = "start"
    /\ load_authorization_code(client, code)
    /\ requests' = [requests EXCEPT ![r] =
           IF IsNone(result'.value)
           THEN [pc |-> "done", code |-> code, loaded |-> None,
                 outcome |-> Answer(FALSE, None, "invalid_grant")]
           ELSE [pc |-> "loaded", code |-> code, loaded |-> result'.value,
                 outcome |-> None]]
    /\ UNCHANGED <<required_scopes, access_token, presented, pc,
                   authorization_result, response, challenge>>
    /\ UNCHANGED bridge_vars

TokenRequestExchange(r, client) ==
    /\ requests[r].pc = "loaded"
    /\ exchange_authorization_code(client, Get(requests[r].loaded))
    /\ requests' = [requests EXCEPT ![r] =
           [@ EXCEPT !.pc = "done",
                     !.outcome = IF result'.ok
                                 THEN Answer(TRUE, Some(result'.value.access_token), "")
                                 ELSE Answer(FALSE, None, result'.error)]]
    /\ UNCHANGED <<required_scopes, access_token, presented, pc,
                   authorization_result, response, challenge>>
    /\ UNCHANGED bridge_vars

----------------------------------------------------------------------------
(* Callback capture: simple-notebook-client main.py *)

listener_vars == <<handling, hpc, http_status, redirects>>
flow_vars == <<main_pc, exit_path, server>>
wait_vars == <<wpc, timeout, start_time, outcome, waits>>
slot_vars == <<callback_data, written, early>>

\* the query strings of the requests that reach the listener: the <<key, value>>
\* pairs in order (a code with its state, a code alone, an error after a blank
\* code, neither)
Queries ==
    { <<<<"code", "a">>, <<"state", "sa">>>>,
      <<<<"code", "b">>>>,
      <<<<"code", "">>, <<"error", "access_denied">>>>,
      <<>> }

\* the requests of the specification with fairness: a code with its state, an
\* error
FairQueries ==
    { <<<<"code", "a">>, <<"state", "sa">>>>,
      <<<<"code", "">>, <<"error", "access_denied">>>> }

\* wait_for_callback's timeout argument, in seconds (main passes 300)
WaitTimeouts == {0, 1}
\* how long one time.sleep(0.1) takes, in polls: 0.1 s or, delayed, 0.4 s
SleepPolls == {1, 4}
\* how long opening the browser takes, in polls
RedirectPolls == {0, 3}

\* parse_qs(query): key -> the non-blank values given for the key, in order
RECURSIVE ValuesOf(_, _)
ValuesOf(query, key) ==
    IF query = <<>> THEN <<>>
    ELSE (IF Head(query)[1] = key /\ Head(query)[2] /= ""
          THEN <<Head(query)[2]>> ELSE <<>>)
         \o ValuesOf(Tail(query), key)
parse_qs(query) ==
    [key \in {k \in {query[i][1] : i \in 1..Len(query)} : ValuesOf(query, k) /= <<>>}
        |-> ValuesOf(query, key)]

\* query_params.get("state", [None])[0]
StateParam(query_params) ==
    IF "state" \in DOMAIN query_params THEN Some(query_params["state"][1]) ELSE None

\* Python truth of an Optional string
Truthy(o) == ~IsNone(o) /\ Get(o) /= ""

\* the running wait_for_callback has executed its clear of the field
AfterClear(field) ==
    /\ main_pc = "waiting"
    /\ wpc \notin (IF field = "authorization_code" THEN {"l138"}
                   ELSE IF field = "state" THEN {"l138", "l139"}
                   ELSE {"l138", "l139", "l140"})

\* history: a slot field was written by the id-th request (0: by a clear of
\* wait_for_callback), which had this query, during wait cycle waits, after
\* that wait's clear of the field or not
Tag(id, query, field) ==
    [id |-> id, cycle |-> waits, query |-> query, fresh |-> AfterClear(field)]

\* the listener thread accepts a request and enters do_GET
Arrive(query) ==
    /\ server = "serving"
    /\ hpc = "idle"
    /\ redirects < MaxRedirects
    /\ handling' = Some(query)
    /\ hpc' = "l61"
    /\ redirects' = redirects + 1
    /\ early' = IF redirects = 0 /\ main_pc = "redirected"
                   /\ "code" \in DOMAIN parse_qs(query)
                THEN Some([code |-> parse_qs(query)["code"][1], stored |-> FALSE])
                ELSE early
    /\ UNCHANGED <<http_status, flow_vars, wait_vars, callback_data, written, bnow>>
    /\ UNCHANGED <<provider_vars, guard_vars>>

\* mutant: a request with a code also resets the error of the slot
DoGetDispatch_resets_error ==
    /\ hpc = "l61"
    /\ LET query_params == parse_qs(Get(handling))
           tag(field) == Tag(redirects, Get(handling), field)
       IN IF "code" \in DOMAIN query_params
          THEN /\ callback_data' = [callback_data EXCEPT
                      !.authorization_code = Some(query_params["code"][1]),
                      !.error = None]
               /\ written' = [written EXCEPT !.authorization_code = tag("authorization_code")]
               /\ early' = IF redirects = 1 /\ main_pc = "redirected" /\ ~IsNone(early)
                           THEN Some([Get(early) EXCEPT !.stored = TRUE])
                           ELSE early
               /\ hpc' = "l63"
               /\ UNCHANGED <<handling, http_status>>
          ELSE IF "error" \in DOMAIN query_params
          THEN /\ callback_data' = [callback_data EXCEPT
                      !.error = Some(query_params["error"][1])]
               /\ written' = [written EXCEPT !.error = tag("error")]
               /\ UNCHANGED early
               /\ http_status' = 400
               /\ hpc' = "idle"
               /\ handling' = None
          ELSE /\ http_status' = 404
               /\ hpc' = "idle"
               /\ handling' = None
               /\ UNCHANGED slot_vars
    /\ UNCHANGED <<redirects, flow_vars, wait_vars, bnow>>
    /\ UNCHANGED <<provider_vars, guard_vars>>

\* do_GET, lines 58-62 and 76-94: the code is written, or the error, or nothing
DoGetDispatch ==
    /\ hpc = "l61"
    /\ LET query_params == parse_qs(Get(handling))
           tag(field) == Tag(redirects, Get(handling), field)
       IN IF "code" \in DOMAIN query_params
          THEN /\ callback_data' = [callback_data EXCEPT
                      !.authorization_code = Some(query_params["code"][1])]
               /\ written' = [written EXCEPT !.authorization_code = tag("authorization_code")]
               /\ early' = IF redirects = 1 /\ main_pc = "redirected" /\ ~IsNone(early)
                           THEN Some([Get(early) EXCEPT !.stored = TRUE])
                           ELSE early
               /\ hpc' = "l63"
               /\ UNCHANGED <<handling, http_status>>
          ELSE IF "error" \in DOMAIN query_params
          THEN /\ callback_data' = [callback_data EXCEPT
                      !.error = Some(query_params["error"][1])]
               /\ written' = [written EXCEPT !.error = tag("error")]
               /\ UNCHANGED early
               /\ http_status' = 400
               /\ hpc' = "idle"
               /\ handling' = None
          ELSE /\ http_status' = 404
               /\ hpc' = "idle"
               /\ handling' = None
               /\ UNCHANGED slot_vars
    /\ UNCHANGED <<redirects, flow_vars, wait_vars, bnow>>
    /\ UNCHANGED <<provider_vars, guard_vars>>

\* do_GET, lines 63-75: the state is written and the success page sent
DoGetState ==
    /\ hpc = "l63"
    /\ callback_data' = [callback_data EXCEPT
           !.state = StateParam(parse_qs(Get(handling)))]
    /\ written' = [written EXCEPT !.state = Tag(redirects, Get(handling), "state")]
    /\ UNCHANGED early
    /\ http_status' = 200
    /\ hpc' = "idle"
    /\ handling' = None
    /\ UNCHANGED <<redirects, flow_vars, wait_vars, bnow>>
    /\ UNCHANGED <<provider_vars, guard_vars>>

\* main, lines 166-168: the listener is created and started; HTTPServer may
\* fail to bind the port
Start(bound) ==
    /\ main_pc = "new"
    /\ IF bound
       THEN /\ server' = "serving"
            /\ main_pc' = "running"
            /\ UNCHANGED exit_path
       ELSE /\ server' = "none"
            /\ main_pc' = "except"
            /\ exit_path' = "start_failed"
    /\ UNCHANGED <<listener_vars, wait_vars, slot_vars, bnow>>
    /\ UNCHANGED <<provider_vars, guard_vars>>

\* the OAuth client needs an authorization: _default_redirect_handler opens
\* the browser
RedirectHandler(d) ==
    /\ main_pc = "running"
    /\ waits < MaxWaits
    /\ main_pc' = "redirected"
    /\ bnow' = bnow + d
    /\ UNCHANGED <<exit_path, server, listener_vars, wait_vars, slot_vars>>
    /\ UNCHANGED <<provider_vars, guard_vars>>

\* callback_handler calls wait_for_callback(timeout)
CallbackHandler(t) ==
    /\ main_pc = "redirected"
    /\ main_pc' = "waiting"
    /\ wpc' = "l138"
    /\ waits' = waits + 1
    /\ timeout' = t
    /\ outcome' = None
    /\ UNCHANGED <<exit_path, server, start_time, listener_vars, slot_vars, bnow>>
    /\ UNCHANGED <<provider_vars, guard_vars>>

\* mutant: the slot is not cleared
Cleared_keep(slot, field) == slot

\* self.callback_data[field] = None
Cleared(slot, field) == [slot EXCEPT ![field] = None]

\* wait_for_callback, lines 138-140, one assignment at a time
Clear ==
    /\ wpc \in {"l138", "l139", "l140"}
    /\ LET field == IF wpc = "l138" THEN "authorization_code"
                    ELSE IF wpc = "l139" THEN "state" ELSE "error"
       IN /\ callback_data' = Cleared(callback_data, field)
          /\ written' = [written EXCEPT ![field] = Tag(0, <<>>, field)]
    /\ UNCHANGED early
    /\ wpc' = IF wpc = "l138" THEN "l139" ELSE IF wpc = "l139" THEN "l140" ELSE "l142"
    /\ UNCHANGED <<timeout, start_time, outcome, waits, flow_vars, listener_vars, bnow>>
    /\ UNCHANGED <<provider_vars, guard_vars>>

\* line 142: start_time = time.time()
StartClock ==
    /\ wpc = "l142"
    /\ start_time' = bnow
    /\ wpc' = "l143"
    /\ UNCHANGED <<timeout, outcome, waits, flow_vars, listener_vars, slot_vars, bnow>>
    /\ UNCHANGED <<provider_vars, guard_vars>>

\* what callback_handler gave: a (code, state) pair or an exception
Outcome(kind, code, state, message, tags) ==
    Some([kind |-> kind, code |-> code, state |-> state, message |-> message,
          tags |-> tags, elapsed |-> bnow - start_time])

\* mutant: the clock is compared with the timeout, not the elapsed time
WithinTimeout_absolute(time, start, seconds) == time < seconds * PollsPerSecond

\* time.time() - start_time < timeout
WithinTimeout(time, start, seconds) == time - start < seconds * PollsPerSecond

\* mutant: the timeout is raised through the error message
TimeoutMessage_as_error == "Exception: OAuth error: None"

\* line 149: Exception("Timeout waiting for OAuth callback")
TimeoutMessage == "Exception: Timeout waiting for OAuth callback"

\* lines 143 and 149: the loop test, and the timeout exception when it fails
LoopTest ==
    /\ wpc = "l143"
    /\ IF WithinTimeout(bnow, start_time, timeout)
       THEN /\ wpc' = "l144"
            /\ UNCHANGED <<outcome, flow_vars>>
       ELSE /\ wpc' = "idle"
            /\ outcome' = Outcome("timeout", None, None, TimeoutMessage, NoTags)
            /\ main_pc' = "except"
            /\ exit_path' = "timeout"
            /\ UNCHANGED server
    /\ UNCHANGED <<timeout, start_time, waits, listener_vars, slot_vars, bnow>>
    /\ UNCHANGED <<provider_vars, guard_vars>>

\* lines 144 and 146: the tests of the code and of the error
TestSlot ==
    /\ wpc \in {"l144", "l146"}
    /\ wpc' = IF wpc = "l144"
              THEN (IF Truthy(callback_data.authorization_code) THEN "l145" ELSE "l146")
              ELSE (IF Truthy(callback_data.error) THEN "l147" ELSE "l148")
    /\ UNCHANGED <<timeout, start_time, outcome, waits, flow_vars, listener_vars,
                   slot_vars, bnow>>
    /\ UNCHANGED <<provider_vars, guard_vars>>

\* line 145: return self.callback_data["authorization_code"]
ReturnCode ==
    /\ wpc = "l145"
    /\ outcome' = Outcome("returned", callback_data.authorization_code, None, "",
                          [NoTags EXCEPT !.authorization_code = written.authorization_code])
    /\ wpc' = "l174"
    /\ UNCHANGED <<timeout, start_time, waits, flow_vars, listener_vars, slot_vars, bnow>>
    /\ UNCHANGED <<provider_vars, guard_vars>>

\* line 147: raise Exception(f"OAuth error: {error}")
RaiseError ==
    /\ wpc = "l147"
    /\ outcome' = Outcome("error", None, None,
                          "Exception: OAuth error: " \o PyStrOpt(callback_data.error),
                          [NoTags EXCEPT !.error = written.error])
    /\ wpc' = "idle"
    /\ main_pc' = "except"
    /\ exit_path' = "callback_error"
    /\ UNCHANGED <<server, timeout, start_time, waits, listener_vars, slot_vars, bnow>>
    /\ UNCHANGED <<provider_vars, guard_vars>>

\* line 148: time.sleep(0.1)
Sleep(d) ==
    /\ wpc = "l148"
    /\ bnow' = bnow + d
    /\ wpc' = "l143"
    /\ UNCHANGED <<timeout, start_time, outcome, waits, flow_vars, listener_vars,
                   slot_vars>>
    /\ UNCHANGED <<provider_vars, guard_vars>>

\* line 174 and get_state: the pair (auth_code, state) goes to the OAuth client
GetState ==
    /\ wpc = "l174"
    /\ outcome' = Some([Get(outcome) EXCEPT
                          !.kind = "code",
                          !.state = callback_data.state,
                          !.tags = [@ EXCEPT !.state = written.state]])
    /\ wpc' = "idle"
    /\ main_pc' = "running"
    /\ UNCHANGED <<exit_path, server, timeout, start_time, waits, listener_vars,
                   slot_vars, bnow>>
    /\ UNCHANGED <<provider_vars, guard_vars>>

\* main leaves the try body: it runs to the end, returns early (line 230), or
\* an exception reaches `except Exception` (line 286)
LeaveBody(path) ==
    /\ main_pc = "running"
    /\ exit_path' = path
    /\ main_pc' = IF path = "exception" THEN "except" ELSE "finally"
    /\ UNCHANGED <<server, listener_vars, wait_vars, slot_vars, bnow>>
    /\ UNCHANGED <<provider_vars, guard_vars>>

\* lines 286-290: the exception is printed
Except ==
    /\ main_pc = "except"
    /\ main_pc' = "finally"
    /\ UNCHANGED <<exit_path, server, listener_vars, wait_vars, slot_vars, bnow>>
    /\ UNCHANGED <<provider_vars, guard_vars>>

\* mutant: the listener is left running
ServerAfterStop_leak == server

\* CallbackServer.stop: shutdown and server_close when there is a server
ServerAfterStop == IF server = "serving" THEN "closed" ELSE server

\* lines 291-294: callback_server.stop(); shutdown() returns once the listener
\* has finished the request it is working on
Finally ==
    /\ main_pc = "finally"
    /\ hpc = "idle"
    /\ server' = ServerAfterStop
    /\ main_pc' = "done"
    /\ UNCHANGED <<exit_path, listener_vars, wait_vars, slot_vars, bnow>>
    /\ UNCHANGED <<provider_vars, guard_vars>>

----------------------------------------------------------------------------
(* Specifications *)

Init == ProviderInit /\ GuardIdle /\ BridgeInit

\* the store operations, all within one reading of the clock
Next ==
    \/ \E c \in RegisterInputs : register_client(c) /\ UNCHANGED <<guard_vars, bridge_vars>>
    \/ \E c \in {"c1", "c2"} : get_client(c) /\ UNCHANGED <<guard_vars, bridge_vars>>
    \/ \E a \in AuthorizeInputs : authorize(a[1], a[2]) /\ UNCHANGED <<guard_vars, bridge_vars>>
    \/ \E l \in Logins, st \in FormStates :
           handle_simple_callback(l[1], l[2], st) /\ UNCHANGED <<guard_vars, bridge_vars>>
    \/ \E code \in CodeObjs :
           load_authorization_code(c1, code.code) /\ UNCHANGED <<guard_vars, bridge_vars>>
    \/ \E c \in ClientObjs, code \in CodeObjs :
           exchange_authorization_code(c, code) /\ UNCHANGED <<guard_vars, bridge_vars>>
    \/ \E t \in TokenStrings : load_access_token(t) /\ UNCHANGED <<guard_vars, bridge_vars>>
    \/ \E r \in RefreshInputs :
           load_refresh_token(r[1], r[2]) /\ UNCHANGED <<guard_vars, bridge_vars>>
    \/ \E r \in RefreshInputs :
           exchange_refresh_token(r[1], [token |-> r[2]], r[3]) /\ UNCHANGED <<guard_vars, bridge_vars>>
    \/ \E t \in TokenStrings : revoke_token(t) /\ UNCHANGED <<guard_vars, bridge_vars>>

Spec == Init /\ [][Next]_vars

\* the grant and token operations with the clock advancing between calls
NextClock ==
    \/ \E a \in ClockAuthorizeInputs : authorize(a[1], a[2]) /\ UNCHANGED <<guard_vars, bridge_vars>>
    \/ \E l \in ClockLogins, st \in FormStates :
           handle_simple_callback(l[1], l[2], st) /\ UNCHANGED <<guard_vars, bridge_vars>>
    \/ \E code \in CodeObjs :
           exchange_authorization_code(c1, code) /\ UNCHANGED <<guard_vars, bridge_vars>>
    \/ \E t \in TokenStrings : load_access_token(t) /\ UNCHANGED <<guard_vars, bridge_vars>>
    \/ \E t \in TokenStrings : revoke_token(t) /\ UNCHANGED <<guard_vars, bridge_vars>>
    \/ \E d \in {1, TokenTicks} : Advance(d) /\ UNCHANGED <<guard_vars, bridge_vars>>

SpecClock == Init /\ [][NextClock]_vars

\* one client that comes back for a new grant after its token has ended
NextRegrant ==
    \/ \E a \in RegrantInputs : authorize_again(a[1], a[2]) /\ UNCHANGED <<guard_vars, bridge_vars>>
    \/ \E st \in RegrantStates :
           handle_simple_callback(demo_username, demo_password, st) /\ UNCHANGED <<guard_vars, bridge_vars>>
    \/ \E code \in CodeObjs :
           exchange_authorization_code(c1, code) /\ UNCHANGED <<guard_vars, bridge_vars>>
    \/ \E t \in TokenStrings : load_access_token(t) /\ UNCHANGED <<guard_vars, bridge_vars>>
    \/ \E t \in TokenStrings : revoke_token(t) /\ UNCHANGED <<guard_vars, bridge_vars>>
    \/ Advance(TokenTicks + 1) /\ UNCHANGED <<guard_vars, bridge_vars>>

SpecRegrant == Init /\ [][NextRegrant]_vars

\* authorization requests that come while another one is pending, and the
\* exchanges of the codes by clients with and without an identifier
NextPending ==
    \/ \E a \in AuthorizeInputs : authorize(a[1], a[2]) /\ UNCHANGED <<guard_vars, bridge_vars>>
    \/ \E a \in AuthorizeInputs :
           authorize_pending_state(a[1], a[2]) /\ UNCHANGED <<guard_vars, bridge_vars>>
    \/ \E l \in Logins, st \in FormStates :
           handle_simple_callback(l[1], l[2], st) /\ UNCHANGED <<guard_vars, bridge_vars>>
    \/ \E c \in ClientObjs, code \in CodeObjs :
           exchange_authorization_code(c, code) /\ UNCHANGED <<guard_vars, bridge_vars>>

SpecPending == Init /\ [][NextPending]_vars

\* the tools of the notebook server and the scopes each one is registered with
\* (@app.tool(required_scopes=[...]))
ToolScopes ==
    [ list_notes |-> <<"read">>, read_note |-> <<"read">>,
      add_note |-> <<"write">>, edit_note |-> <<"write">> ]
Tools == DOMAIN ToolScopes

\* the sets of tools a client can aim at (target_tools)
TargetSets == (SUBSET Tools) \ {{}}

\* sorted() of a set of scope names: Python's string order
ScopeOrder == <<"Read", "admin", "read", "write">>
RECURSIVE SortedFrom(_, _)
SortedFrom(order, names) ==
    IF order = <<>> THEN <<>>
    ELSE (IF Head(order) \in names THEN <<Head(order)>> ELSE <<>>)
         \o SortedFrom(Tail(order), names)

\* mutant: only the scopes of one of the target tools are kept
aggregated_scopes_one_tool(target_tools) ==
    ToolScopes[CHOOSE t \in target_tools :
                   \A u \in target_tools :
                       ToolScopes[t] = <<"read">> \/ ToolScopes[u] /= <<"read">>]

\* aggregated_scopes.update(scopes) over the listed tools that are target tools,
\* then sorted(list(aggregated_scopes))
aggregated_scopes(target_tools) ==
    SortedFrom(ScopeOrder,
               UNION {Range(ToolScopes[t]) : t \in Tools \cap target_tools})

\* main(), steps 1 and 2: the scopes of the target tools are set as the
\* requested scope, and the authorization request of the round trip that
\* follows asks for them
authorize_aggregated(target_tools) ==
    /\ aggregated_scopes(target_tools) /= <<>>
    /\ authorize(c1, AuthorizationParams(None, Some(aggregated_scopes(target_tools)),
                                         "http://a/cb", TRUE, Some("http://rs/mcp")))

\* session.call_tool(tool): the request carries the bearer the client holds,
\* none before the first exchange, and meets the guard of that tool
call_tool(tool) ==
    /\ pc \in {"idle", "done"}
    /\ required_scopes' = Some(ToolScopes[tool])
    /\ presented' \in IF DOMAIN minted_tokens = {} THEN {None}
                      ELSE {Some(t) : t \in DOMAIN minted_tokens}
    /\ pc' = "request"
    /\ UNCHANGED <<access_token, authorization_result, response, challenge, requests>>
    /\ UNCHANGED provider_vars

\* the aggregating client against the notebook server
NextAggregated ==
    \/ \E target_tools \in TargetSets :
           authorize_aggregated(target_tools) /\ UNCHANGED <<guard_vars, bridge_vars>>
    \/ \E st \in FormStates :
           handle_simple_callback(demo_username, demo_password, st) /\ UNCHANGED <<guard_vars, bridge_vars>>
    \/ \E code \in CodeObjs :
           exchange_authorization_code(c1, code) /\ UNCHANGED <<guard_vars, bridge_vars>>
    \/ \E tool \in Tools : call_tool(tool) /\ UNCHANGED bridge_vars
    \/ ResolveToken /\ UNCHANGED bridge_vars
    \/ CheckToolAuthorization /\ UNCHANGED bridge_vars
    \/ \E u \in MetadataUrls : Respond(u) /\ UNCHANGED bridge_vars

SpecAggregated == Init /\ [][NextAggregated]_vars

\* concurrent requests at the token endpoint
NextExchange ==
    \/ \E a \in ClockAuthorizeInputs : authorize(a[1], a[2]) /\ UNCHANGED <<guard_vars, bridge_vars>>
    \/ \E st \in FormStates :
           handle_simple_callback(demo_username, demo_password, st) /\ UNCHANGED <<guard_vars, bridge_vars>>
    \/ \E r \in 1..MaxRequests, code \in (DOMAIN minted_codes) \cup {"mcp_unknown"} :
           TokenRequestLoad(r, c1, code)
    \/ \E r \in 1..MaxRequests : TokenRequestExchange(r, c1)

SpecExchange == InitRequests /\ [][NextExchange]_vars

\* the login form handler in front of the grant operations
NextLogin ==
    \/ \E a \in ClockAuthorizeInputs : authorize(a[1], a[2]) /\ UNCHANGED <<guard_vars, bridge_vars>>
    \/ \E form \in LoginForms : handle_login_callback(form) /\ UNCHANGED <<guard_vars, bridge_vars>>
    \/ \E code \in CodeObjs :
           exchange_authorization_code(c1, code) /\ UNCHANGED <<guard_vars, bridge_vars>>

SpecLogin == Init /\ [][NextLogin]_vars

\* the client registry alone, with client informations that can be told apart
NextClients ==
    \/ \E c \in ClientInfos : register_client(c) /\ UNCHANGED <<guard_vars, bridge_vars>>
    \/ \E c \in {"c1", "c2", ""} : get_client(c) /\ UNCHANGED <<guard_vars, bridge_vars>>

SpecClients == Init /\ [][NextClients]_vars

\* one tool call against a provider that issued one token
NextGuard ==
    \/ ResolveToken /\ UNCHANGED bridge_vars
    \/ CheckToolAuthorization /\ UNCHANGED bridge_vars
    \/ \E u \in MetadataUrls : Respond(u) /\ UNCHANGED bridge_vars

SpecGuard == InitGuard /\ [][NextGuard]_vars

\* build_www_authenticate_header alone, over every kind of argument
NextChallenge == BuildHeader

SpecChallenge == InitChallenge /\ [][NextChallenge]_vars

\* the client: main(), its wait_for_callback calls and the listener thread
InitBridge == ProviderInit /\ GuardIdle /\ BridgeInit

ListenerStep ==
    \/ \E q \in Queries : Arrive(q)
    \/ DoGetDispatch
    \/ DoGetState

ListenerProgress == DoGetDispatch \/ DoGetState

MainStep ==
    \/ \E bound \in BOOLEAN : Start(bound)
    \/ \E d \in RedirectPolls : RedirectHandler(d)
    \/ \E t \in WaitTimeouts : CallbackHandler(t)
    \/ Clear
    \/ StartClock
    \/ LoopTest
    \/ TestSlot
    \/ ReturnCode
    \/ RaiseError
    \/ \E d \in SleepPolls : Sleep(d)
    \/ GetState
    \/ \E path \in {"completed", "return", "exception"} : LeaveBody(path)
    \/ Except
    \/ Finally

NextBridge == ListenerStep \/ MainStep

SpecBridge == InitBridge /\ [][NextBridge]_vars

\* the same with fewer kinds of request, and with the main thread and the
\* listener thread both scheduled again and again
ListenerStepFair ==
    \/ \E q \in FairQueries : Arrive(q)
    \/ DoGetDispatch
    \/ DoGetState

NextBridgeFair == ListenerStepFair \/ MainStep

SpecBridgeFair ==
    /\ InitBridge
    /\ [][NextBridgeFair]_vars
    /\ WF_vars(MainStep)
    /\ WF_vars(ListenerProgress)

----------------------------------------------------------------------------
(* Properties *)

\* the tokens minted from a code, the codes minted for a flow
TokensFrom(code) == {t \in DOMAIN minted_tokens : minted_tokens[t].code = code}
CodesFor(flow) == {c \in DOMAIN minted_codes : minted_codes[c].flow = flow}

(* C1: an authorization code is exchanged successfully at most once. A       *)
(* successful exchange is of a code in the store that never produced a token  *)
(* and deletes it; a code that has produced a token is never in the store     *)
(* again; and an exchange of a code that is not in the store fails with       *)
(* "Invalid authorization code" and leaves the token store unchanged.         *)
C1_SingleUse ==
    /\ [](\A c \in DOMAIN minted_codes :
            /\ Cardinality(TokensFrom(c)) <= 1
            /\ TokensFrom(c) /= {} => c \notin DOMAIN auth_codes)
    /\ [][result'.op = "exchange_authorization_code" =>
            LET cl == result'.args[1]
                a == result'.args[2]
            IN exchange_authorization_code(cl, a) =>
                 /\ result'.ok =>
                      /\ a.code \in DOMAIN auth_codes
                      /\ a.code \notin DOMAIN auth_codes'
                      /\ TokensFrom(a.code) = {}
                 /\ a.code \notin DOMAIN auth_codes =>
                      /\ ~result'.ok
                      /\ result'.error = "ValueError: Invalid authorization code"
                      /\ tokens' = tokens]_vars

\* a second exchange of a code that already produced a token has failed
C1_Witness ==
    /\ result.op = "exchange_authorization_code"
    /\ ~result.ok
    /\ result.error = "ValueError: Invalid authorization code"
    /\ ~IsNone(result.args[1].client_id)
    /\ TokensFrom(result.args[2].code) /= {}

(* C2: every AccessToken in the store has exactly the scope list (same        *)
(* elements, same order) of the AuthorizationCode whose exchange created it.  *)
C2_TokenScopesAreCodeScopes ==
    \A t \in DOMAIN tokens :
        tokens[t].scopes = minted_codes[minted_tokens[t].code].rec.scopes

\* a token is in the store whose code carried one of the four scope lists
C2_Witness ==
    \E t \in DOMAIN tokens :
        /\ tokens[t].scopes = <<"write">>
        /\ minted_codes[minted_tokens[t].code].rec.scopes = <<"write">>

\* the guard has decided; the required list, None read as empty; the scopes of
\* the resolved token
Decided == pc \in {"checked", "done"}
Req == IF IsNone(required_scopes) THEN <<>> ELSE Get(required_scopes)
TokScopes == Get(access_token).scopes

(* C3: with a resolved token, check_tool_authorization returns OK if and only *)
(* if the required list is empty or absent, or every required scope is equal,  *)
(* as a string, to some scope of the token.                                    *)
C3_OkIffAllRequiredInToken ==
    (Decided /\ ~IsNone(access_token)) =>
        ( authorization_result[1] = OK
          <=> \A i \in 1..Len(Req) :
                  \E j \in 1..Len(TokScopes) : TokScopes[j] = Req[i] )

\* "Read" is required of a token that has "read": refused
C3_Witness ==
    /\ pc = "checked"
    /\ ~IsNone(access_token)
    /\ Req = <<"Read">>
    /\ TokScopes = <<"read">>
    /\ authorization_result[1] = INSUFFICIENT_SCOPE

\* the presented bearer resolves to no token: none presented, one that was
\* never issued, or one past its expiry
NoTokenResolvable ==
    \/ IsNone(presented)
    \/ Get(presented) \notin DOMAIN minted_tokens
    \/ minted_tokens[Get(presented)].rec.expires_at * TicksPerSecond < now

(* C4: when no token is resolvable (none presented, unknown, or expired) the  *)
(* guard returns OK with no payload for an empty or absent required list and  *)
(* MISSING_AUTH with no payload for every nonempty one.                        *)
C4_NoTokenMissingAuth ==
    (Decided /\ NoTokenResolvable) =>
        authorization_result = IF Req = <<>> THEN <<OK, None>>
                               ELSE <<MISSING_AUTH, None>>

\* an expired token was presented to a tool that requires "read"
C4_Witness ==
    /\ pc = "checked"
    /\ presented = Some("mcp_t1")
    /\ minted_tokens["mcp_t1"].rec.expires_at * TicksPerSecond < now
    /\ Req = <<"read">>
    /\ authorization_result = <<MISSING_AUTH, None>>

(* C5: the payload of INSUFFICIENT_SCOPE is the first required scope, in list *)
(* order, that the token lacks: every earlier one is a scope of the token.    *)
(* OK and MISSING_AUTH carry no payload.                                       *)
C5_FirstMissingScope ==
    Decided =>
        IF authorization_result[1] = INSUFFICIENT_SCOPE
        THEN /\ ~IsNone(access_token)
             /\ \E i \in 1..Len(Req) :
                    /\ authorization_result[2] = Some(Req[i])
                    /\ Req[i] \notin Range(TokScopes)
                    /\ \A j \in 1..(i - 1) : Req[j] \in Range(TokScopes)
        ELSE authorization_result[2] = None

\* two required scopes are missing and the first is reported
C5_Witness ==
    /\ pc = "checked"
    /\ Req = <<"write", "admin">>
    /\ ~IsNone(access_token)
    /\ TokScopes = <<"read">>
    /\ authorization_result = <<INSUFFICIENT_SCOPE, Some("write")>>

\* the challenge headers whose scope parameter is sc
Descriptions == {"Authentication required"}
                \cup {"Required scope: " \o n : n \in ScopeNames}
MetadataParts == {""} \cup {", resource_metadata=\"" \o Get(u) \o "\"" :
                            u \in MetadataUrls \ {None}}
HeadersWith(error, sc) ==
    { "Bearer error=\"" \o error \o "\", error_description=\"" \o d
        \o "\", scope=\"" \o sc \o "\"" \o m :
      d \in Descriptions, m \in MetadataParts }
RECURSIVE SpaceJoined(_)
SpaceJoined(xs) ==
    IF xs = <<>> THEN ""
    ELSE IF Len(xs) = 1 THEN xs[1]
    ELSE SpaceJoined(Front(xs)) \o " " \o Last(xs)
Denied == pc = "done" /\ Get(response).status \in {401, 403}

(* C6: the challenge header of a denied call has a scope parameter equal to   *)
(* the whole required list joined by single spaces in declared order; for     *)
(* required ["read", "write"] it is scope="read write".                       *)
C6_ChallengeScopeIsRequiredList ==
    Denied =>
        LET header == Get(Get(response).header)
            all == HeadersWith("invalid_token", SpaceJoined(Req))
                   \cup HeadersWith("insufficient_scope", SpaceJoined(Req))
        IN /\ header \in all
           /\ Req = <<"read", "write">> =>
                  header \in HeadersWith("invalid_token", "read write")
                             \cup HeadersWith("insufficient_scope", "read write")

\* required ["read", "write"], token scopes ["read"]: "write" is missing and
\* the header says scope="read write"
C6_Witness ==
    /\ Denied
    /\ Req = <<"read", "write">>
    /\ ~IsNone(access_token)
    /\ TokScopes = <<"read">>
    /\ authorization_result = <<INSUFFICIENT_SCOPE, Some("write")>>
    /\ Get(Get(response).header) \in HeadersWith("insufficient_scope", "read write")

(* C7: the answer to a tool call follows the guard's decision: MISSING_AUTH   *)
(* gives 401 with error="invalid_token", INSUFFICIENT_SCOPE gives 403 with    *)
(* error="insufficient_scope", OK gives 200 and the tool runs; the tool runs  *)
(* for no other decision.                                                      *)
C7_StatusFollowsDecision ==
    pc = "done" =>
        LET r == Get(response)
            d == authorization_result[1]
        IN /\ d = MISSING_AUTH =>
                /\ r.status = 401
                /\ ~r.executed
                /\ Get(r.header) \in HeadersWith("invalid_token", SpaceJoined(Req))
           /\ d = INSUFFICIENT_SCOPE =>
                /\ r.status = 403
                /\ ~r.executed
                /\ Get(r.header) \in HeadersWith("insufficient_scope", SpaceJoined(Req))
           /\ d = OK => (r.status = 200 /\ r.executed /\ r.header = None)
           /\ r.executed => d = OK

\* a call without a token to a tool that requires "read" was answered 401
C7_Witness ==
    /\ pc = "done"
    /\ IsNone(presented)
    /\ Req = <<"read">>
    /\ authorization_result[1] = MISSING_AUTH
    /\ Get(response).status = 401
    /\ ~Get(response).executed

(* C8: load_access_token returns the token if and only if it is in the store  *)
(* and the clock is not past its expiry, and then changes nothing; otherwise  *)
(* it returns None, an expired token is removed from the store and every      *)
(* other token is kept; a token that has left the store never returns to it.  *)
C8_LoadTokenEvictsExpired ==
    /\ [][result'.op = "load_access_token" =>
            LET t == result'.args[1]
                live == /\ t \in DOMAIN tokens
                        /\ ~(tokens[t].expires_at * TicksPerSecond < now)
            IN load_access_token(t) =>
                 /\ result'.value = (IF live THEN Some(tokens[t]) ELSE None)
                 /\ IF live THEN tokens' = tokens
                    ELSE /\ t \notin DOMAIN tokens'
                         /\ \A u \in (DOMAIN tokens) \ {t} :
                                u \in DOMAIN tokens' /\ tokens'[u] = tokens[u]]_vars
    /\ [][\A t \in DOMAIN minted_tokens :
            t \notin DOMAIN tokens => t \notin DOMAIN tokens']_vars

\* a load of a token that load_access_token evicted returned None
C8_Witness ==
    /\ result.op = "load_access_token"
    /\ result.args[1] \in DOMAIN gone
    /\ gone[result.args[1]] = "evicted"
    /\ result.value = None
    /\ result.args[1] \notin DOMAIN tokens

(* C9: a pending authorization is consumed at most once. No authorize call    *)
(* gets two codes; a successful login removes the state from the map; a state *)
(* that produced a code is in the map again only for a later authorize call;  *)
(* and a login with a state that is not in the map (consumed or never issued) *)
(* fails with "Invalid state parameter" and mints no code.                     *)
C9_PendingConsumedOnce ==
    /\ [](\A f \in 1..Len(flows) : Cardinality(CodesFor(f)) <= 1)
    /\ [](\A c \in DOMAIN minted_codes :
            minted_codes[c].state \in DOMAIN state_mapping =>
                FlowOf(minted_codes[c].state) > minted_codes[c].flow)
    /\ [][result'.op = "handle_simple_callback" =>
            LET u == result'.args[1]
                pw == result'.args[2]
                st == result'.args[3]
            IN handle_simple_callback(u, pw, st) =>
                 /\ st \notin DOMAIN state_mapping =>
                      /\ ~result'.ok
                      /\ result'.error = "HTTPException 400: Invalid state parameter"
                      /\ auth_codes' = auth_codes
                      /\ minted_codes' = minted_codes
                 /\ result'.ok =>
                      /\ st \in DOMAIN state_mapping
                      /\ st \notin DOMAIN state_mapping']_vars

\* a login with the right credentials and a consumed state has failed
C9_Witness ==
    /\ result.op = "handle_simple_callback"
    /\ result.args[1] = "demo_user" /\ result.args[2] = "demo_password"
    /\ ~result.ok
    /\ result.error = "HTTPException 400: Invalid state parameter"
    /\ \E c \in DOMAIN minted_codes : minted_codes[c].state = result.args[3]

(* C10: a login with a known state and a username or password that is not    *)
(* the fixed pair fails with "Invalid credentials" and leaves the pending,    *)
(* code and token maps unchanged; a login with a known state and the fixed    *)
(* pair succeeds, also after failed attempts.                                  *)
C10_BadCredentialsConsumeNothing ==
    [][result'.op = "handle_simple_callback" =>
         LET u == result'.args[1]
             pw == result'.args[2]
             st == result'.args[3]
         IN (handle_simple_callback(u, pw, st) /\ st \in DOMAIN state_mapping) =>
              IF u = "demo_user" /\ pw = "demo_password"
              THEN /\ result'.ok
                   /\ Cardinality(DOMAIN auth_codes') = Cardinality(DOMAIN auth_codes) + 1
              ELSE /\ ~result'.ok
                   /\ result'.error = "HTTPException 401: Invalid credentials"
                   /\ state_mapping' = state_mapping
                   /\ auth_codes' = auth_codes
                   /\ tokens' = tokens]_vars

\* a login with a wrong password has failed and the state is still pending
C10_Witness ==
    /\ result.op = "handle_simple_callback"
    /\ result.args[1] = "demo_user" /\ result.args[2] = "guess"
    /\ ~result.ok
    /\ result.error = "HTTPException 401: Invalid credentials"
    /\ result.args[3] \in DOMAIN state_mapping

(* C11: an authorization code whose expiry (300 seconds after issuance) has   *)
(* passed cannot be exchanged: exchange_authorization_code of a stored code   *)
(* past its expires_at fails and adds no token.                                *)
C11_ExpiredCodeNotExchanged ==
    [][result'.op = "exchange_authorization_code" =>
         LET cl == result'.args[1]
             a == result'.args[2]
         IN ( /\ exchange_authorization_code(cl, a)
              /\ a.code \in DOMAIN auth_codes
              /\ auth_codes[a.code].expires_at < now ) =>
                 /\ ~result'.ok
                 /\ tokens' = tokens]_vars

(* C12: authorize for a client that is not in the clients map fails and       *)
(* stores no pending authorization.                                            *)
C12_AuthorizeRequiresKnownClient ==
    [][result'.op = "authorize" =>
         LET cl == result'.args[1]
             p == result'.args[2]
         IN ( /\ authorize(cl, p)
              /\ \/ IsNone(cl.client_id)
                 \/ Get(cl.client_id) \notin DOMAIN clients ) =>
                 /\ ~result'.ok
                 /\ state_mapping' = state_mapping]_vars

(* C13: load_refresh_token returns None and exchange_refresh_token fails with *)
(* "Refresh tokens not supported", for every input, and both leave the        *)
(* client, pending, code and token maps unchanged.                             *)
C13_RefreshUnsupported ==
    [][/\ result'.op = "load_refresh_token" =>
            (load_refresh_token(result'.args[1], result'.args[2]) =>
                 /\ result'.ok
                 /\ result'.value = None
                 /\ UNCHANGED <<clients, state_mapping, auth_codes, tokens>>)
       /\ result'.op = "exchange_refresh_token" =>
            (exchange_refresh_token(result'.args[1], result'.args[2], result'.args[3]) =>
                 /\ ~result'.ok
                 /\ result'.error = "NotImplementedError: Refresh tokens not supported"
                 /\ UNCHANGED <<clients, state_mapping, auth_codes, tokens>>)]_vars

\* a stored access token's string was looked up as a refresh token: None
C13_Witness ==
    /\ result.op = "load_refresh_token"
    /\ result.args[2] \in DOMAIN tokens
    /\ result.value = None

(* C14: revoke_token never fails; afterwards the token is not in the store   *)
(* and load_access_token of it returns None; every other token and the       *)
(* client, pending and code maps are unchanged, also when the token was not  *)
(* in the store.                                                               *)
C14_RevokeRemovesOnlyThatToken ==
    /\ [][result'.op = "revoke_token" =>
            LET t == result'.args[1]
            IN revoke_token(t) =>
                 /\ result'.ok
                 /\ t \notin DOMAIN tokens'
                 /\ DOMAIN tokens' = (DOMAIN tokens) \ {t}
                 /\ \A u \in DOMAIN tokens' : tokens'[u] = tokens[u]
                 /\ UNCHANGED <<clients, state_mapping, auth_codes>>]_vars
    /\ [][result'.op = "load_access_token" =>
            LET t == result'.args[1]
            IN (load_access_token(t) /\ t \in DOMAIN gone /\ gone[t] = "revoked") =>
                 result'.value = None]_vars

\* a token that was revoked before has been revoked: no error
C14_Witness ==
    /\ result.op = "revoke_token"
    /\ result.ok
    /\ result.args[1] \in DOMAIN gone
    /\ gone[result.args[1]] = "revoked"
    /\ result.args[1] \notin DOMAIN tokens

\* what the last wait gave, when it gave something
Gave(kind) == ~IsNone(outcome) /\ Get(outcome).kind = kind
\* the tag is of a request that wrote after the current wait's clear of the field
WrittenInThisWait(tag) == tag.id > 0 /\ tag.cycle = waits /\ tag.fresh

C16_PairNotTorn ==
    Gave("code") =>
        Get(outcome).state = StateParam(parse_qs(Get(outcome).tags.authorization_code.query))

(* C17: wait_for_callback always ends; when no request has reached the        *)
(* listener it ends with the timeout exception; and the timeout exception is  *)
(* raised only when the time since the wait began has reached the timeout.    *)
C17_WaitTerminates ==
    /\ [](Gave("timeout") => Get(outcome).elapsed >= timeout * 10)
    /\ []((~IsNone(outcome) /\ redirects = 0) => Gave("timeout"))
    /\ (main_pc = "waiting") ~> (main_pc /= "waiting" /\ ~IsNone(outcome))

\* a wait of one second with no request at all has timed out
C17_Witness ==
    /\ Gave("timeout")
    /\ redirects = 0
    /\ timeout = 1
    /\ Get(outcome).elapsed >= 10

\* the error parameters a request can carry
ErrorParams == {"access_denied"}

(* C18: a wait ends in one of three ways that differ: it returns the code a   *)
(* request wrote, it raises "OAuth error: <error>" with the error a request   *)
(* wrote, or it raises "Timeout waiting for OAuth callback", which is no      *)
(* OAuth error message. A poll that finds the code populated returns it, a    *)
(* poll that finds the error populated and no code raises the error, and the  *)
(* timeout reached with neither populated raises the timeout.                  *)
C18_ThreeOutcomes ==
    /\ [](~IsNone(outcome) =>
            LET o == Get(outcome)
            IN /\ o.kind \in {"returned", "code", "error", "timeout"}
               /\ o.kind \in {"returned", "code"} =>
                    /\ Truthy(o.code)
                    /\ o.code = Some(parse_qs(o.tags.authorization_code.query)["code"][1])
                    /\ o.message = ""
               /\ o.kind = "error" =>
                    /\ IsNone(o.code)
                    /\ o.message = "Exception: OAuth error: "
                                     \o parse_qs(o.tags.error.query)["error"][1]
               /\ o.kind = "timeout" =>
                    /\ IsNone(o.code)
                    /\ o.message = "Exception: Timeout waiting for OAuth callback"
                    /\ \A e \in ErrorParams \cup {"None", ""} :
                           o.message /= "Exception: OAuth error: " \o e)
    /\ [][/\ (wpc = "l144" /\ wpc' /= wpc /\ Truthy(callback_data.authorization_code)) =>
                wpc' = "l145"
          /\ (wpc = "l145" /\ wpc' /= wpc) =>
                (Gave("returned")' /\ Get(outcome').code = callback_data.authorization_code)
          /\ (wpc = "l146" /\ wpc' /= wpc /\ Truthy(callback_data.error)) =>
                wpc' = "l147"
          /\ (wpc = "l147" /\ wpc' /= wpc) => Gave("error")'
          /\ ( /\ wpc = "l143" /\ wpc' /= wpc
               /\ bnow - start_time >= timeout * 10
               /\ ~Truthy(callback_data.authorization_code)
               /\ ~Truthy(callback_data.error) ) => Gave("timeout")']_vars

\* a wait has raised the error of a request
C18_Witness ==
    /\ Gave("error")
    /\ Get(outcome).message = "Exception: OAuth error: access_denied"
    /\ main_pc = "except"
    /\ exit_path = "callback_error"

(* C19: an authorization round begins only while the listener is serving;     *)
(* main() never ends with the listener serving; and once main() has left its  *)
(* try body, on any path, it ends, with the listener stopped.                  *)
C19_ListenerStopped ==
    /\ [](main_pc \in {"redirected", "waiting"} => server = "serving")
    /\ [](main_pc = "done" => server /= "serving")
    /\ (main_pc \in {"except", "finally"}) ~> (main_pc = "done" /\ server /= "serving")

\* main() has ended after a timed-out wait and the listener is closed
C19_Witness ==
    /\ main_pc = "done"
    /\ exit_path = "timeout"
    /\ server = "closed"

(* C20: after wait_for_callback has cleared the slot, the code and the error  *)
(* are never both populated.                                                   *)
C20_AtMostOneOutcome ==
    (main_pc = "waiting" /\ wpc \notin {"l138", "l139", "l140"}) =>
        ~(Truthy(callback_data.authorization_code) /\ Truthy(callback_data.error))

\* C21: register_client with a client that has no identifier fails and leaves
\* the client map as it was; with an identifier it stores the client under
\* that identifier and touches no other entry; registering an identifier that
\* is already there replaces its entry (the last write wins) and the number of
\* registered clients stays the same; registering the same information a
\* second time changes nothing.
C21_RegisterLastWriteWins ==
    [][result'.op = "register_client" =>
         LET client_info == result'.args[1]
             id == Get(client_info.client_id)
         IN IF Falsy(client_info.client_id)
            THEN /\ ~result'.ok
                 /\ result'.error = "ValueError: No client_id provided"
                 /\ clients' = clients
            ELSE /\ result'.ok
                 /\ DOMAIN clients' = (DOMAIN clients) \cup {id}
                 /\ clients'[id] = client_info
                 /\ \A k \in (DOMAIN clients) \ {id} : clients'[k] = clients[k]
                 /\ id \in DOMAIN clients =>
                        Cardinality(DOMAIN clients') = Cardinality(DOMAIN clients)
                 /\ (id \in DOMAIN clients /\ clients[id] = client_info) =>
                        clients' = clients]_vars

\* both identifiers are registered and the last registration stored the
\* second information of an identifier
C21_Witness ==
    /\ result.op = "register_client"
    /\ result.ok
    /\ result.args[1] = [client_id |-> Some("c1"), client_name |-> "n2"]
    /\ DOMAIN clients = {"c1", "c2"}
    /\ clients["c1"].client_name = "n2"

\* C22: every successful exchange_authorization_code returns token_type
\* "Bearer", expires_in 3600 and a scope string that is the code's scopes
\* joined by single spaces in stored order, and the AccessToken stored under
\* the returned access_token expires exactly 3600 seconds after the time of
\* the exchange.
C22_ExchangeResult ==
    [][(result'.op = "exchange_authorization_code" /\ result'.ok
          /\ minted_tokens' /= minted_tokens) =>
         LET authorization_code == result'.args[2]
             value == result'.value
         IN /\ value.token_type = "Bearer"
            /\ value.expires_in = 3600
            /\ value.scope = SpaceJoined(authorization_code.scopes)
            /\ value.access_token \in DOMAIN tokens'
            /\ tokens'[value.access_token].expires_at * TicksPerSecond
                   = now + 3600 * TicksPerSecond]_vars

\* a step in which handle_simple_callback succeeded
LoginSucceeds ==
    /\ result'.op = "handle_simple_callback"
    /\ result'.ok
    /\ minted_codes' /= minted_codes

\* C23: a successful handle_simple_callback, in one step, stores exactly one
\* new AuthorizationCode and changes no other code; the new code has the
\* client id, redirect URI, PKCE challenge and resource of the pending
\* authorization stored under the submitted state, and the submitted username
\* as its resource owner; that pending authorization, and no other, is
\* deleted; and the value returned is a redirect to the pending redirect URI
\* that carries the new code and the submitted state.
C23_LoginIssuesCodeFromPending ==
    [][LoginSucceeds =>
         LET username == result'.args[1]
             state == result'.args[3]
             value == result'.value
         IN /\ state \in DOMAIN state_mapping
            /\ value.code \notin DOMAIN auth_codes
            /\ DOMAIN auth_codes' = (DOMAIN auth_codes) \cup {value.code}
            /\ \A c \in DOMAIN auth_codes : auth_codes'[c] = auth_codes[c]
            /\ LET pending == state_mapping[state]
                   auth_code == auth_codes'[value.code]
               IN /\ auth_code.code = value.code
                  /\ Some(auth_code.client_id) = pending.client_id
                  /\ auth_code.redirect_uri = pending.redirect_uri
                  /\ auth_code.code_challenge = pending.code_challenge
                  /\ auth_code.resource = pending.resource
                  /\ auth_code.resource_owner = username
                  /\ value.redirect_uri = pending.redirect_uri
                  /\ value.state = state
            /\ DOMAIN state_mapping' = (DOMAIN state_mapping) \ {state}
            /\ \A st \in DOMAIN state_mapping' :
                   state_mapping'[st] = state_mapping[st]]_vars

\* a login succeeded for a pending authorization that named a resource: the
\* code carries it and the pending authorization is gone
C23_Witness ==
    /\ result.op = "handle_simple_callback"
    /\ result.ok
    /\ result.value.code \in DOMAIN auth_codes
    /\ auth_codes[result.value.code].resource = Some("http://rs/mcp")
    /\ auth_codes[result.value.code].resource_owner = result.args[1]
    /\ result.args[3] \notin DOMAIN state_mapping

\* the scope list an authorize call asked for: an absent list counts as empty
RequestedScopes(flow) ==
    IF IsNone(flows[flow].params.scopes) THEN <<>>
    ELSE Get(flows[flow].params.scopes)

\* C24: every AuthorizationCode has exactly the scope list its authorize call
\* asked for, in the same order (the empty list when none was given), and
\* every AccessToken has exactly the scope list asked for by the authorize
\* call of the code it was exchanged for.
C24_ScopesAsRequested ==
    /\ \A c \in DOMAIN minted_codes :
           minted_codes[c].rec.scopes = RequestedScopes(minted_codes[c].flow)
    /\ \A c \in DOMAIN auth_codes : auth_codes[c] = minted_codes[c].rec
    /\ \A t \in DOMAIN minted_tokens :
           minted_tokens[t].rec.scopes
               = RequestedScopes(minted_codes[minted_tokens[t].code].flow)
    /\ \A t \in DOMAIN tokens : tokens[t] = minted_tokens[t].rec

\* a token was issued in a flow that asked for two scopes in the order
\* write, read
C24_Witness ==
    \E t \in DOMAIN tokens :
        /\ tokens[t].scopes = <<"write", "read">>
        /\ flows[minted_codes[minted_tokens[t].code].flow].params.scopes
               = Some(<<"write", "read">>)

\* the header a finished build_www_authenticate_header call returned
Built == ~IsNone(challenge) /\ ~IsNone(Get(challenge).header)

\* C25: the value of build_www_authenticate_header is
\* Bearer error="<error>", error_description="<description>", followed by
\* , scope="<scopes joined by spaces>" exactly when the required list is given
\* and not empty, followed by , resource_metadata="<url>" exactly when a
\* metadata URL is given; a part that does not apply leaves no trace.
C25_ChallengeLayout ==
    Built =>
        LET args == Get(challenge).args
            required == args[3]
            url == args[4]
            head == "Bearer error=\"" \o args[1] \o "\", error_description=\""
                        \o args[2] \o "\""
            scope == IF IsNone(required) \/ Get(required) = <<>> THEN ""
                     ELSE ", scope=\"" \o SpaceJoined(Get(required)) \o "\""
            metadata == IF IsNone(url) THEN ""
                        ELSE ", resource_metadata=\"" \o Get(url) \o "\""
        IN Get(Get(challenge).header) = head \o scope \o metadata

\* a header was built for an empty required list and a metadata URL: it has
\* no scope parameter
C25_Witness ==
    /\ Built
    /\ Get(challenge).args[3] = Some(<<>>)
    /\ Get(challenge).header
           = Some("Bearer error=\"invalid_token\", error_description=\"Authentication required\", resource_metadata=\"http://rs/.well-known/oauth-protected-resource\"")

\* a step in which authorize returned
Authorizes == result'.op = "authorize" /\ flows' /= flows

\* C26: authorize returns the login URL <auth_callback_url>?state=<state>&
\* client_id=<client id> for a state under which, after the call, the pending
\* authorization of this call is stored. That state is the caller's when the
\* caller gave one (an empty one counts as not given) and otherwise one that
\* was never in use before; and a login that posts a state with a pending
\* authorization is never answered "Invalid state parameter".
C26_PendingUnderUrlState ==
    [][/\ Authorizes =>
            LET client == result'.args[1]
                params == result'.args[2]
            IN \E state \in DOMAIN state_mapping' :
                   /\ result'.value = auth_callback_url \o "?state=" \o state
                          \o "&client_id=" \o Get(client.client_id)
                   /\ state_mapping'[state].client_id = client.client_id
                   /\ state_mapping'[state].redirect_uri = params.redirect_uri
                   /\ state_mapping'[state].code_challenge = params.code_challenge
                   /\ state_mapping'[state].scopes = params.scopes
                   /\ state_mapping'[state].resource = params.resource
                   /\ IF Falsy(params.state)
                      THEN /\ state \notin DOMAIN state_mapping
                           /\ \A i \in 1..Len(flows) : flows[i].state /= state
                      ELSE state = Get(params.state)
       /\ (result'.op = "handle_simple_callback"
             /\ result'.args[3] \in DOMAIN state_mapping) =>
            result'.error /= "HTTPException 400: Invalid state parameter"]_vars

\* authorize was called with the state s1 and the login URL names it
C26_Witness ==
    /\ result.op = "authorize"
    /\ result.args[2].state = Some("s1")
    /\ result.value = "http://as/login?state=s1&client_id=c2"
    /\ "s1" \in DOMAIN state_mapping

\* C27: a login form in which the username, the password or the state is
\* missing, empty or not a text is answered with HTTP 400 by the form checks
\* themselves, not by the state lookup or the credential check, and the
\* pending authorizations, the codes and the tokens are left as they were.
C27_BadFormRejectedFirst ==
    [][result'.op = "handle_login_callback" =>
         LET form == result'.args[1]
             bad(v) == IsNone(v) \/ Get(v).kind /= "str" \/ Get(v).value = ""
         IN (bad(form.username) \/ bad(form.password) \/ bad(form.state)) =>
                /\ ~result'.ok
                /\ result'.error \in
                       {"HTTPException 400: Missing username, password, or state parameter",
                        "HTTPException 400: Invalid parameter types"}
                /\ state_mapping' = state_mapping
                /\ auth_codes' = auth_codes
                /\ tokens' = tokens]_vars

\* a form with the state of a pending authorization, the right username and
\* an uploaded file as its password was rejected by the type check, and the
\* pending authorization is still there
C27_Witness ==
    /\ result.op = "handle_login_callback"
    /\ result.args[1].username = Str("demo_user")
    /\ result.args[1].password = File
    /\ result.args[1].state = Str("s1")
    /\ result.error = "HTTPException 400: Invalid parameter types"
    /\ "s1" \in DOMAIN state_mapping

\* the tokens issued in a flow
TokensOfFlow(flow) ==
    {t \in DOMAIN minted_tokens : minted_codes[minted_tokens[t].code].flow = flow}

\* C28: an authorize call leads to at most one authorization code, a code to
\* at most one access token, and so a flow to at most one token; a token that
\* was revoked or evicted is never in the store again and load_access_token
\* of it gives None from then on, also after the same client has gone through
\* a new flow and holds a different token.
C28_OneTokenPerFlow ==
    /\ [](/\ \A flow \in 1..Len(flows) :
                /\ Cardinality(CodesFor(flow)) <= 1
                /\ Cardinality(TokensOfFlow(flow)) <= 1
           /\ \A c \in DOMAIN minted_codes : Cardinality(TokensFrom(c)) <= 1
           /\ \A t \in DOMAIN gone : t \notin DOMAIN tokens)
    /\ [][/\ DOMAIN gone \subseteq DOMAIN gone'
           /\ (result'.op = "load_access_token" /\ now' = now
                 /\ result'.args[1] \in DOMAIN gone') =>
                  IsNone(result'.value)]_vars

\* a client whose first token was evicted or revoked holds a different token
\* from a later flow
C28_Witness ==
    \E t1 \in DOMAIN gone, t2 \in DOMAIN tokens :
        /\ t1 /= t2
        /\ minted_tokens[t1].rec.client_id = tokens[t2].client_id
        /\ minted_codes[minted_tokens[t1].code].flow
               < minted_codes[minted_tokens[t2].code].flow

\* the resource an authorize call named (None when it named none)
RequestedResource(flow) == flows[flow].params.resource

\* C29: the resource of every AuthorizationCode and of every AccessToken is
\* the resource given to the authorize call of its flow, None when none was
\* given; the resource owner of a code is the username of the login that
\* issued it, and the resource owner of a token is that of its code.
C29_ResourceAndOwnerCarried ==
    /\ [](/\ \A c \in DOMAIN minted_codes :
                minted_codes[c].rec.resource
                    = RequestedResource(minted_codes[c].flow)
           /\ \A t \in DOMAIN minted_tokens :
                LET code == minted_codes[minted_tokens[t].code]
                IN /\ minted_tokens[t].rec.resource = RequestedResource(code.flow)
                   /\ minted_tokens[t].rec.resource_owner = code.rec.resource_owner
           /\ \A stored \in DOMAIN tokens :
                /\ tokens[stored].resource = minted_tokens[stored].rec.resource
                /\ tokens[stored].resource_owner
                       = minted_tokens[stored].rec.resource_owner)
    /\ [][LoginSucceeds =>
             minted_codes'[result'.value.code].rec.resource_owner
                 = result'.args[1]]_vars

\* a stored token names the resource its authorize call named, and the user
\* who logged in
C29_Witness ==
    \E t \in DOMAIN tokens :
        /\ tokens[t].resource = Some("http://rs/mcp")
        /\ RequestedResource(minted_codes[minted_tokens[t].code].flow)
               = Some("http://rs/mcp")
        /\ tokens[t].resource_owner = demo_username

\* the requests whose write of the code or of the error, made after the clear
\* of the running wait_for_callback, is in the slot
FreshWriters ==
    {written[field].id : field \in
        {f \in {"authorization_code", "error"} :
            written[f].id > 0 /\ written[f].cycle = waits /\ written[f].fresh}}

\* C30: when two requests have written the slot during one wait_for_callback
\* and the listener has finished both before a poll finds anything, the poll
\* finds what the later request wrote: the code it returns, or the error it
\* raises, is that of the request that arrived last, also when one request
\* carried a code and the other an error.
C30_LastRedirectWins ==
    [][(/\ wpc \in {"l144", "l146"}
        /\ wpc' \in {"l145", "l147"}
        /\ hpc = "idle"
        /\ Cardinality(FreshWriters) = 2) =>
           LET seen == IF wpc' = "l145" THEN written.authorization_code
                       ELSE written.error
           IN \A id \in FreshWriters : id <= seen.id]_vars

\* the request has a non-blank value for the key, and the first such value
HasParam(query, key) == \E i \in 1..Len(query) : query[i][1] = key /\ query[i][2] /= ""
FirstParam(query, key) ==
    query[CHOOSE i \in 1..Len(query) :
              /\ query[i][1] = key /\ query[i][2] /= ""
              /\ \A j \in 1..(i - 1) : ~(query[j][1] = key /\ query[j][2] /= "")][2]

\* C31: each step of do_GET changes the slot only as its request says. For a
\* request with a code, the first step writes the code and the second the
\* state of the request (None when it has none), neither touches the error,
\* and the answer is 200; for a request with an error and no code the one
\* step writes the error, leaves code and state alone and answers 400; a
\* request with neither leaves the three fields alone and answers 404.
C31_ListenerWritesOnlyItsFields ==
    [][/\ (hpc = "l61" /\ hpc' /= hpc) =>
            LET query == Get(handling)
            IN IF HasParam(query, "code")
               THEN /\ callback_data'.authorization_code
                           = Some(FirstParam(query, "code"))
                    /\ callback_data'.state = callback_data.state
                    /\ callback_data'.error = callback_data.error
               ELSE IF HasParam(query, "error")
               THEN /\ callback_data'.error = Some(FirstParam(query, "error"))
                    /\ callback_data'.authorization_code
                           = callback_data.authorization_code
                    /\ callback_data'.state = callback_data.state
                    /\ http_status' = 400
               ELSE /\ callback_data' = callback_data
                    /\ http_status' = 404
       /\ (hpc = "l63" /\ hpc' /= hpc) =>
            LET query == Get(handling)
            IN /\ callback_data'.state
                      = (IF HasParam(query, "state")
                         THEN Some(FirstParam(query, "state")) ELSE None)
               /\ callback_data'.authorization_code
                      = callback_data.authorization_code
               /\ callback_data'.error = callback_data.error
               /\ http_status' = 200]_vars

\* a request with an error was answered while the slot held the code and the
\* state of an earlier request: both are still there, beside the error
C31_Witness ==
    /\ hpc = "idle"
    /\ http_status = 400
    /\ callback_data.authorization_code = Some("a")
    /\ callback_data.state = Some("sa")
    /\ callback_data.error = Some("access_denied")

\* the requests that presented the code and got a token, and those that
\* presented it and were refused
Winners(code) ==
    {r \in 1..Len(requests) :
        /\ requests[r].code = code /\ requests[r].pc = "done"
        /\ Get(requests[r].outcome).ok}
Losers(code) ==
    {r \in 1..Len(requests) :
        /\ requests[r].code = code /\ requests[r].pc = "done"
        /\ ~Get(requests[r].outcome).ok}

\* C32: of the token requests that present the same authorization code, each
\* loading the code and then exchanging it, in any interleaving, at most one
\* gets an access token; every other one is refused, by the provider with
\* "Invalid authorization code" or by the endpoint with invalid_grant; and
\* the code has brought exactly one token into the store once a request that
\* loaded it is done.
C32_OneExchangeWins ==
    \A code \in DOMAIN minted_codes :
        /\ Cardinality(Winners(code)) <= 1
        /\ Cardinality(TokensFrom(code)) = Cardinality(Winners(code))
        /\ TokensFrom(code) \subseteq DOMAIN tokens
        /\ \A r \in Losers(code) :
               Get(requests[r].outcome).error
                   \in {"ValueError: Invalid authorization code", "invalid_grant"}
        /\ (\E r \in 1..Len(requests) :
                /\ requests[r].code = code /\ requests[r].pc = "done"
                /\ ~IsNone(requests[r].loaded)) =>
               Cardinality(Winners(code)) = 1

\* two requests loaded the same code while it was in the store; one got the
\* token and the other was refused by exchange_authorization_code
C32_Witness ==
    \E r1, r2 \in 1..Len(requests) :
        /\ r1 /= r2
        /\ requests[r1].code = requests[r2].code
        /\ requests[r1].pc = "done" /\ Get(requests[r1].outcome).ok
        /\ requests[r2].pc = "done" /\ ~IsNone(requests[r2].loaded)
        /\ Get(requests[r2].outcome).error = "ValueError: Invalid authorization code"

\* the token a load or a revoke was called with is expired or already gone
Ended(t) == t \notin DOMAIN tokens \/ Expired(tokens[t], now)

\* C33: load_access_token and revoke_token calls for the same expired token,
\* in whatever order the server runs them, all answer "no token" and none
\* fails (the entry may already be gone); after each of them the token is
\* absent and every other token is stored as it was
C33_ExpiredTokenCallsAllAnswerNone ==
    [][(now' = now /\ result'.op \in {"load_access_token", "revoke_token"}) =>
          LET t == result'.args[1]
          IN Ended(t) =>
               /\ result'.ok
               /\ result'.value = None
               /\ t \notin DOMAIN tokens'
               /\ DOMAIN tokens' = (DOMAIN tokens) \ {t}
               /\ \A u \in DOMAIN tokens' : tokens'[u] = tokens[u]]_vars

\* the expired token was evicted by a load, a revoke of it came afterwards and
\* was answered, and the token of the next grant is still stored
C33_Witness ==
    /\ result.op = "revoke_token"
    /\ result.ok
    /\ result.args[1] \in DOMAIN gone
    /\ gone[result.args[1]] = "evicted"
    /\ result.args[1] \notin DOMAIN tokens
    /\ DOMAIN tokens /= {}

\* the flow a stored access token came from
FlowOfToken(t) == minted_codes[minted_tokens[t].code].flow

\* C34: a client that asked, in its one authorization request, for the union
\* of the required scopes of a set of tools, and logged in and exchanged the
\* code, holds a token with which the guard of every tool of that set decides
\* OK: no tool of the set sends the client back for a further round trip.
C34_AggregatedScopesCoverTargets ==
    (pc = "checked" /\ ~IsNone(access_token)) =>
        \A target_tools \in TargetSets :
            (/\ RequestedScopes(FlowOfToken(Get(access_token).token))
                  = aggregated_scopes(target_tools)
             /\ \E tool \in target_tools : required_scopes = Some(ToolScopes[tool]))
            => authorization_result = <<OK, None>>

\* the client asked for read and write at once and its call of a tool that
\* needs write has been decided
C34_Witness ==
    /\ pc = "checked"
    /\ ~IsNone(access_token)
    /\ Get(access_token).scopes = <<"read", "write">>
    /\ required_scopes = Some(ToolScopes["add_note"])
    /\ authorization_result = <<OK, None>>

\* C35: every AccessToken is bound to the client its authorization code was
\* issued to: an exchange_authorization_code call by a registered client
\* yields a token only for a code of that client, and the token's client id
\* is the client id of the code.
C35_TokenBoundToCodeClient ==
    [][(result'.op = "exchange_authorization_code"
          /\ minted_tokens' /= minted_tokens) =>
          LET client == result'.args[1]
              authorization_code == result'.args[2]
          IN Get(client.client_id) \in DOMAIN clients =>
                 /\ Get(client.client_id) = authorization_code.client_id
                 /\ tokens'[result'.value.access_token].client_id
                      = authorization_code.client_id]_vars

\* C36: a redirect of the current round is not lost: when the redirect with
\* the code came in and was stored after the browser was opened and before
\* wait_for_callback was called, and no other request reached the listener,
\* the wait that follows (with a timeout above zero) gives that code and does
\* not end in the timeout.
C36_EarlyRedirectNotLost ==
    (/\ ~IsNone(early)
     /\ Get(early).stored
     /\ waits = 1
     /\ redirects = 1
     /\ timeout > 0
     /\ ~IsNone(outcome))
    => /\ Get(outcome).kind /= "timeout"
       /\ Get(outcome).code = Some(Get(early).code)

\* C37: a pending authorization, once stored, is not modified or replaced
\* before the login that consumes it: no call changes the redirect URI, the
\* client id, the scopes or the resource stored under a state, and an
\* authorize call that gives a state that is pending leaves that entry as it is.
C37_PendingNotReplaced ==
    [][\A st \in DOMAIN state_mapping :
          st \in DOMAIN state_mapping' =>
              /\ state_mapping'[st].redirect_uri = state_mapping[st].redirect_uri
              /\ state_mapping'[st].client_id = state_mapping[st].client_id
              /\ state_mapping'[st].scopes = state_mapping[st].scopes
              /\ state_mapping'[st].resource = state_mapping[st].resource]_vars

\* C38: a failed exchange_authorization_code changes nothing: whether the
\* code is unknown or the client has no identifier, the code map, the token
\* map and the pending map (and the client and user-data maps) are as before;
\* a stored code presented by a client without identifier is still stored, so
\* that it can be exchanged afterwards.
C38_FailedExchangeChangesNothing ==
    [][(result'.op = "exchange_authorization_code" /\ ~result'.ok) =>
          /\ result'.error \in {"ValueError: Invalid authorization code",
                                "ValueError: No client_id provided"}
          /\ UNCHANGED <<auth_codes, tokens, state_mapping, clients, user_data>>
          /\ (result'.error = "ValueError: No client_id provided"
                => result'.args[2].code \in DOMAIN auth_codes')]_vars

\* a client without identifier has presented a stored code, was refused, and
\* the code is still stored
C38_Witness ==
    /\ result.op = "exchange_authorization_code"
    /\ ~result.ok
    /\ IsNone(result.args[1].client_id)
    /\ result.args[2].code \in DOMAIN auth_codes
    /\ auth_codes[result.args[2].code] = result.args[2]

\* C39: the provider keeps no record of a token that is gone: once a token
\* was removed by revoke_token or evicted by load_access_token, no map of the
\* provider (tokens, user_data, auth_codes, state_mapping, clients) has an
\* entry under that token.
C39_NoRecordOfGoneToken ==
    \A t \in DOMAIN gone :
        /\ t \notin DOMAIN tokens
        /\ t \notin DOMAIN user_data
        /\ t \notin DOMAIN auth_codes
        /\ t \notin DOMAIN state_mapping
        /\ t \notin DOMAIN clients

====
